---- MODULE Spec2Model ----
(***************************************************************************)
(* Model of the request-dispatch and protocol-framing layer of             *)
(* mcp-system-monitor: the JSON-RPC router (src/src/server.rs), the        *)
(* request/response envelope (src/src/types/protocol.rs), the monitor      *)
(* capability behind its write lock (src/src/system_monitor/core.rs), the  *)
(* stdio adapter (src/src/stdio_server.rs) and the raw HTTP endpoint       *)
(* (src/src/http_server.rs).                                               *)
(*                                                                         *)
(* Conventions.  Option<T> is a sequence: <<>> is None, <<v>> is Some(v).  *)
(* A Rust String is a TLA+ string.  A JSON scalar is a record              *)
(* [t, s, n]: t is serde_json's representation tag ("null", "bool",        *)
(* "string", "posint" = Number::PosInt(u64), "negint" = Number::NegInt,    *)
(* "float" = Number::Float), s the text of a string, n the magnitude of    *)
(* an integer as little-endian 16-bit limbs (four limbs = 64 bits), so     *)
(* that the u64 -> u32 conversion keeps its width.                         *)
(***************************************************************************)
EXTENDS Integers, Sequences, FiniteSets, TLC

(***************************************************************************)
(* Bounds of the model.                                                    *)
(***************************************************************************)
\* Number of request tasks the HTTP server runs concurrently.
NumTasks == 2
\* Largest reading of the wall clock (Utc::now()); the clock never runs back.
MaxClock == 1
\* Largest number of logical CPUs num_cpus::get() reports.
MaxCores == 2
\* Largest number of header blocks in a given stdin stream.
MaxStream == 2
\* Largest number of events followed on one SSE stream.
MaxBeats == 2

Tasks == 1..NumTasks
Clock == 0..MaxClock

(***************************************************************************)
(* Program constants (src/src/types/constants.rs).                         *)
(***************************************************************************)
METHOD_GET_SYSTEM_INFO == "getSystemInfo"
METHOD_GET_CPU_INFO == "getCPUInfo"
METHOD_GET_MEMORY_INFO == "getMemoryInfo"
METHOD_GET_DISK_INFO == "getDiskInfo"
METHOD_GET_NETWORK_INFO == "getNetworkInfo"
METHOD_GET_PROCESSES == "getProcesses"
METHOD_GET_PROCESS_BY_PID == "getProcessByPID"
METHOD_GET_SYSTEM_METRICS == "getSystemMetrics"
METHOD_START_MONITORING == "startMonitoring"
METHOD_STOP_MONITORING == "stopMonitoring"

ERROR_INVALID_REQUEST == -32600
ERROR_METHOD_NOT_FOUND == -32601
ERROR_INVALID_PARAMS == -32602
ERROR_INTERNAL_ERROR == -32603
ERROR_PARSE_ERROR == -32700
ERROR_PROCESS_NOT_FOUND == -32001
ERROR_MONITORING_ALREADY_STARTED == -32002
ERROR_MONITORING_NOT_STARTED == -32003
ERROR_SYSTEM_COMMAND_FAILED == -32004
ERROR_PERMISSION_DENIED == -32005

(***************************************************************************)
(* Integers wider than TLC's: little-endian limbs of 16 bits.              *)
(***************************************************************************)
\* The u64 magnitudes used as pids: 1, 999999, 2^32, 2^32 + 1.
U64_One == <<1, 0, 0, 0>>
U64_999999 == <<16959, 15, 0, 0>>
U64_TwoPow32 == <<0, 0, 1, 0>>
U64_TwoPow32Plus1 == <<1, 0, 1, 0>>
NoLimbs == <<0, 0, 0, 0>>

\* `x as u32` on a u64 (server.rs:296): keeps the low 32 bits.
AsU32(n) == <<n[1], n[2]>>
\* A u32 widened back to u64, to compare it with the number it came from.
U32ToU64(p) == <<p[1], p[2], 0, 0>>

(***************************************************************************)
(* JSON scalars and the params object.                                     *)
(***************************************************************************)
JNull == [t |-> "null", s |-> "", n |-> NoLimbs]
JBool == [t |-> "bool", s |-> "", n |-> NoLimbs]
\* The boolean b, where its value matters.
JBoolOf(b) == [t |-> "bool", s |-> IF b THEN "true" ELSE "false", n |-> NoLimbs]
JFloat == [t |-> "float", s |-> "", n |-> NoLimbs]
JStr(x) == [t |-> "string", s |-> x, n |-> NoLimbs]
JPos(limbs) == [t |-> "posint", s |-> "", n |-> limbs]
JNeg(limbs) == [t |-> "negint", s |-> "", n |-> limbs]

\* as_u64 as it would be if a negative integer were taken by magnitude.
as_u64_Magnitude(v) == IF v.t \in {"posint", "negint"} THEN <<v.n>> ELSE <<>>

\* serde_json::Value::as_u64: Some only for Number::PosInt.
as_u64(v) == IF v.t = "posint" THEN <<v.n>> ELSE <<>>
\* serde_json::Value::as_str: Some only for Value::String.
as_str(v) == IF v.t = "string" THEN <<v.s>> ELSE <<>>

\* params: a JSON value; only an object has members.  kind "null" is what
\* #[serde(default)] gives when the member is absent (Value::default()).
Params(kind, pid, name, ver) ==
    [kind |-> kind, pid |-> pid, name |-> name, protocolVersion |-> ver]
EmptyObject == Params("object", <<>>, <<>>, <<>>)
NullParams == Params("null", <<>>, <<>>, <<>>)
\* serde_json::Value::get(key): None unless the value is an object with the key.
Get(params, key) ==
    IF params.kind # "object" THEN <<>>
    ELSE CASE key = "pid" -> params.pid
           [] key = "name" -> params.name
           [] key = "protocolVersion" -> params.protocolVersion
           [] OTHER -> <<>>

(***************************************************************************)
(* JSON documents and their text (serde_json::Value, to_string_pretty and  *)
(* the parse a client makes of the text).                                  *)
(***************************************************************************)
\* Value::Object: the members in the map's order, each a <<key, value>>.
JObject(members) == [t |-> "object", members |-> members]
\* Value::Array
JArray(items) == [t |-> "array", items |-> items]

\* One lexical token of a JSON text: k is "{", "}", "[", "]", ":", ",",
\* "nl" (a line break followed by d levels of indentation), "sp" (a space)
\* or "scalar" (the lexeme of the string, number, boolean or null v).
Token(k, v, d) == [k |-> k, v |-> v, d |-> d]
Punct(k) == Token(k, JNull, 0)
NewLine(d) == Token("nl", JNull, d)
Lexeme(v) == Token("scalar", v, 0)

\* serde_json::to_string_pretty (PrettyFormatter): members and items one per
\* line, indented by their depth, `"key": value`, separated by commas; an
\* empty object or array is printed closed at once.
RECURSIVE PrettyValue(_, _), PrettyMembers(_, _, _), PrettyItems(_, _, _)
PrettyValue(v, d) ==
    IF v.t = "object"
    THEN IF v.members = <<>> THEN <<Punct("{"), Punct("}")>>
         ELSE <<Punct("{")>> \o PrettyMembers(v.members, 1, d + 1)
                  \o <<NewLine(d), Punct("}")>>
    ELSE IF v.t = "array"
    THEN IF v.items = <<>> THEN <<Punct("["), Punct("]")>>
         ELSE <<Punct("[")>> \o PrettyItems(v.items, 1, d + 1)
                  \o <<NewLine(d), Punct("]")>>
    ELSE <<Lexeme(v)>>
PrettyMembers(ms, i, d) ==
    IF i > Len(ms) THEN <<>>
    ELSE (IF i > 1 THEN <<Punct(",")>> ELSE <<>>)
             \o <<NewLine(d), Lexeme(JStr(ms[i][1])), Punct(":"), Punct("sp")>>
             \o PrettyValue(ms[i][2], d) \o PrettyMembers(ms, i + 1, d)
PrettyItems(xs, i, d) ==
    IF i > Len(xs) THEN <<>>
    ELSE (IF i > 1 THEN <<Punct(",")>> ELSE <<>>)
             \o <<NewLine(d)>> \o PrettyValue(xs[i], d) \o PrettyItems(xs, i + 1, d)

to_string_pretty(v) == PrettyValue(v, 0)

\* The text "{}" (the fallback of handle_tools_call, server.rs:170).
EmptyObjectText == <<Punct("{"), Punct("}")>>

\* A JSON parser over the tokens: white space is skipped, a value is a
\* scalar, an object or an array.  The outcome carries the value and the
\* position after it.
Parsed(val, next) == [ok |-> TRUE, val |-> val, next |-> next]
ParseFailure == [ok |-> FALSE, val |-> JNull, next |-> 0]

RECURSIVE SkipWhitespace(_, _)
SkipWhitespace(toks, i) ==
    IF i <= Len(toks) /\ toks[i].k \in {"nl", "sp"}
    THEN SkipWhitespace(toks, i + 1) ELSE i

IsAt(toks, i, k) == i <= Len(toks) /\ toks[i].k = k

RECURSIVE ParseValue(_, _), ParseMembers(_, _, _), ParseItems(_, _, _)
ParseValue(toks, i0) ==
    LET i == SkipWhitespace(toks, i0)
    IN IF IsAt(toks, i, "scalar") THEN Parsed(toks[i].v, i + 1)
       ELSE IF IsAt(toks, i, "{")
       THEN LET j == SkipWhitespace(toks, i + 1)
            IN IF IsAt(toks, j, "}") THEN Parsed(JObject(<<>>), j + 1)
               ELSE ParseMembers(toks, j, <<>>)
       ELSE IF IsAt(toks, i, "[")
       THEN LET j == SkipWhitespace(toks, i + 1)
            IN IF IsAt(toks, j, "]") THEN Parsed(JArray(<<>>), j + 1)
               ELSE ParseItems(toks, j, <<>>)
       ELSE ParseFailure
\* At i0 a member is due: a string key, a colon, a value, then "," or "}".
ParseMembers(toks, i0, acc) ==
    LET i == SkipWhitespace(toks, i0)
    IN IF ~(IsAt(toks, i, "scalar") /\ toks[i].v.t = "string") THEN ParseFailure
       ELSE LET c == SkipWhitespace(toks, i + 1)
            IN IF ~IsAt(toks, c, ":") THEN ParseFailure
               ELSE LET v == ParseValue(toks, c + 1)
                    IN IF ~v.ok THEN ParseFailure
                       ELSE LET e == SkipWhitespace(toks, v.next)
                                members == Append(acc, <<toks[i].v.s, v.val>>)
                            IN IF IsAt(toks, e, ",") THEN ParseMembers(toks, e + 1, members)
                               ELSE IF IsAt(toks, e, "}") THEN Parsed(JObject(members), e + 1)
                               ELSE ParseFailure
\* At i0 an item is due: a value, then "," or "]".
ParseItems(toks, i0, acc) ==
    LET v == ParseValue(toks, i0)
    IN IF ~v.ok THEN ParseFailure
       ELSE LET e == SkipWhitespace(toks, v.next)
                items == Append(acc, v.val)
            IN IF IsAt(toks, e, ",") THEN ParseItems(toks, e + 1, items)
               ELSE IF IsAt(toks, e, "]") THEN Parsed(JArray(items), e + 1)
               ELSE ParseFailure

\* The document a text parses into: Some(value) when the whole text is one
\* JSON value, None otherwise.
from_str(toks) ==
    LET r == ParseValue(toks, 1)
    IN IF r.ok /\ SkipWhitespace(toks, r.next) > Len(toks) THEN <<r.val>> ELSE <<>>

\* The member `key` of an object, None when it has none (or is no object).
Member(v, key) ==
    IF v.t # "object" THEN <<>>
    ELSE LET hits == {i \in 1..Len(v.members) : v.members[i][1] = key}
         IN IF hits = {} THEN <<>> ELSE <<v.members[CHOOSE i \in hits : TRUE][2]>>

(***************************************************************************)
(* The identifier on the wire and in memory (types/protocol.rs).           *)
(***************************************************************************)
\* A JSON id member: absent, null, a string, an integer (i64 range), or
\* anything else (a fraction, a boolean, an array ...).
WireId(kind, s, n) == [kind |-> kind, s |-> s, n |-> n]
IdAbsent == WireId("absent", "", 0)
IdNull == WireId("null", "", 0)
IdOther == WireId("other", "", 0)
IdStr(x) == WireId("string", x, 0)
IdNum(k) == WireId("number", "", k)

Digit(d) ==
    CASE d = 0 -> "0" [] d = 1 -> "1" [] d = 2 -> "2" [] d = 3 -> "3"
      [] d = 4 -> "4" [] d = 5 -> "5" [] d = 6 -> "6" [] d = 7 -> "7"
      [] d = 8 -> "8" [] OTHER -> "9"

RECURSIVE ToDecimal(_)
ToDecimal(k) ==
    IF k < 10 THEN Digit(k) ELSE ToDecimal(k \div 10) \o Digit(k % 10)

\* i64::to_string
I64ToString(k) == IF k < 0 THEN "-" \o ToDecimal(-k) ELSE ToDecimal(k)

\* deserialize_id_opt (protocol.rs:26-47).  Option::deserialize maps both an
\* absent member (serde default) and JSON null to None; a string is kept, an
\* integer is rendered in decimal; any other JSON value matches no variant
\* of the untagged enum and fails the whole request.
IdParses(w) == w.kind # "other"
deserialize_id_opt(w) ==
    CASE w.kind = "string" -> <<w.s>>
      [] w.kind = "number" -> <<I64ToString(w.n)>>
      [] OTHER -> <<>>

\* str::parse::<i64>() on an id string: the integer whose decimal form the
\* string is, for the integers of two digits; <<>> is Err.
str_parse_i64(x) ==
    LET hits == {k \in -99..99 : I64ToString(k) = x}
    IN IF hits = {} THEN <<>> ELSE <<CHOOSE k \in hits : TRUE>>

\* serialize_id_opt (protocol.rs:49-67): a string that parses as i64 is
\* written as a number, the string "null" and None as null, any other
\* string as a string.
serialize_id_opt(id) ==
    IF id = <<>> THEN IdNull
    ELSE IF str_parse_i64(id[1]) # <<>> THEN IdNum(str_parse_i64(id[1])[1])
    ELSE IF id[1] = "null" THEN IdNull
    ELSE IdStr(id[1])

\* The id member of a serialized MCPRequest (protocol.rs:13-16):
\* skip_serializing_if leaves out None, serialize_id_opt writes the rest.
SerializeRequestId(id) ==
    IF id = <<>> THEN IdAbsent ELSE serialize_id_opt(id)

\* The derived Serialize of MCPResponse.id (protocol.rs:75-76): an
\* Option<String>, skipped when None and written as a JSON string otherwise.
SerializeResponseId(id) ==
    IF id = <<>> THEN IdAbsent ELSE IdStr(id[1])

(***************************************************************************)
(* MCPRequest, MCPResponse, MCPError (types/protocol.rs).                  *)
(***************************************************************************)
\* A message as it arrives: wellFormed is FALSE for text that is not JSON or
\* lacks the required jsonrpc / method members.
WireMessage(wellFormed, id, method, params) ==
    [wellFormed |-> wellFormed, id |-> id, method |-> method, params |-> params,
     route |-> "rpc"]

\* serde_json::from_str::<MCPRequest> succeeds.
ParseOk(w) == w.wellFormed /\ IdParses(w.id)
\* The MCPRequest it yields.
MCPRequest(w) ==
    [id |-> deserialize_id_opt(w.id), method |-> w.method, params |-> w.params]

MCPError(code, message) == [code |-> code, message |-> message]

\* create_success_response (server.rs:400-407)
create_success_response(id, result) ==
    [id |-> id, result |-> <<result>>, error |-> <<>>]

\* create_error_response as it would be with the result member filled too.
create_error_response_WithResult(id, code, message) ==
    [id |-> id, result |-> <<[kind |-> "empty"]>>,
     error |-> <<[code |-> code, message |-> message]>>]

\* create_error_response (server.rs:410-421)
create_error_response(id, code, message) ==
    [id |-> id, result |-> <<>>, error |-> <<MCPError(code, message)>>]

\* No response yet.
NoResponse == [id |-> <<>>, result |-> <<>>, error |-> <<>>]

\* serde_json::to_string(&MCPResponse): each None member is skipped, the id
\* goes through the derived serializer.
SerializeResponse(resp) ==
    [id |-> SerializeResponseId(resp.id), result |-> resp.result, error |-> resp.error]

\* json!({}) : an object without members.
EmptyJson == [id |-> IdAbsent, result |-> <<>>, error |-> <<>>]

(***************************************************************************)
(* The Monitor Capability (system_monitor/core.rs, linux.rs).              *)
(***************************************************************************)
Ok(v) == [ok |-> TRUE, val |-> <<v>>, err |-> ""]
OkNone == [ok |-> TRUE, val |-> <<>>, err |-> ""]
Err(text) == [ok |-> FALSE, val |-> <<>>, err |-> text]

\* u64 arithmetic on limbs.
U64_Zero == <<0, 0, 0, 0>>
U64Less(a, b) ==
    \E i \in 1..4 : a[i] < b[i] /\ \A j \in (i + 1)..4 : a[j] = b[j]
U64Leq(a, b) == a = b \/ U64Less(a, b)
RECURSIVE Borrow(_, _, _)
Borrow(a, b, i) ==
    IF i = 1 THEN 0
    ELSE IF a[i - 1] - b[i - 1] - Borrow(a, b, i - 1) < 0 THEN 1 ELSE 0
\* a - b modulo 2^64.
wrapping_sub(a, b) == [i \in 1..4 |-> (a[i] - b[i] - Borrow(a, b, i)) % 65536]
\* a * 1024 modulo 2^64, and whether the product passes 2^64.
wrapping_mul_1024(a) ==
    [i \in 1..4 |-> ((a[i] * 1024) % 65536)
                      + (IF i = 1 THEN 0 ELSE (a[i - 1] * 1024) \div 65536)]
MulOverflows(a) == a[4] * 1024 >= 65536

\* What /proc/meminfo can give for a key: no line (or a line of one word),
\* or a line whose second word is a number of kB; a word that is no u64
\* counts as 0 (parts[1].parse().unwrap_or(0), linux.rs:94).  The numbers
\* are 0, 1, 2 and 2^54.
MemKeys == {"MemTotal:", "MemFree:", "MemAvailable:", "SwapTotal:", "SwapFree:"}
KbReadings == {<<>>, <<U64_Zero>>, <<U64_One>>, <<<<2, 0, 0, 0>>>>, <<<<0, 0, 0, 64>>>>}
MemInfoReads == [MemKeys -> KbReadings]
\* The builds: with overflow checks (arithmetic overflow panics) or without
\* (it wraps).
Builds == {"overflow_checks", "wrapping"}
Panic == [ok |-> FALSE, val |-> <<>>, err |-> "panic: arithmetic overflow"]

\* used = total - available, swap_used = swap_total - swap_free
\* (linux.rs:106-107).
MemoryUsed(total, available) == wrapping_sub(total, available)

\* LinuxSystemInfo::get_memory_info (linux.rs:82-123) on what
\* read_proc_meminfo gave, in a build: each variable starts at 0 and takes
\* value * 1024 of its line; the percentages are left out.
get_memory_info(read, build) ==
    LET Value(k) == IF read[k] = <<>> THEN U64_Zero ELSE wrapping_mul_1024(read[k][1])
        total == Value("MemTotal:")
        free == Value("MemFree:")
        available == Value("MemAvailable:")
        swap_total == Value("SwapTotal:")
        swap_free == Value("SwapFree:")
        overflows ==
            \/ \E k \in MemKeys : read[k] # <<>> /\ MulOverflows(read[k][1])
            \/ U64Less(total, available)
            \/ U64Less(swap_total, swap_free)
    IN IF overflows /\ build = "overflow_checks" THEN Panic
       ELSE Ok([total |-> total,
                used |-> MemoryUsed(total, available),
                free |-> free,
                available |-> available,
                swap_total |-> swap_total,
                swap_used |-> MemoryUsed(swap_total, swap_free),
                swap_free |-> swap_free])

\* No call of get_memory_info on its own.
NoMemory == [read |-> <<>>, build |-> "", info |-> <<>>]

\* What a collector can meet: success, or a failure with its text.
CollectorOutcomes == {"ok", "Failed to execute command"}

\* LinuxSystemInfo::get_* (linux.rs): a snapshot or an anyhow error.
LinuxCollect(op, outcome) ==
    IF outcome = "ok" THEN Ok([kind |-> op]) ELSE Err(outcome)

\* num_cpus::get(): the number of logical CPUs, at least 1.
CoreCounts == 1..MaxCores

\* LinuxSystemInfo::get_cpu_info (linux.rs:54-79): cores is num_cpus::get()
\* as u32; the model, frequency and usage readings can fail.
Linux_get_cpu_info(cores, outcome) ==
    IF outcome = "ok" THEN Ok([kind |-> "get_cpu_info", cores |-> cores])
    ELSE Err(outcome)

\* What `ps -p <pid>` can meet (linux.rs:269-321).
PsOutcomes == {"spawn_failed", "no_row", "short_row", "bad_etime", "row"}

\* LinuxSystemInfo::get_process_by_pid (linux.rs:269-321)
Linux_get_process_by_pid(pid, ps) ==
    CASE ps = "spawn_failed" -> Err("Failed to execute ps command")
      [] ps = "no_row" -> OkNone
      [] ps = "short_row" -> OkNone
      [] ps = "bad_etime" -> Err("Invalid elapsed time format")
      [] OTHER -> Ok([kind |-> "ProcessInfo", pid |-> pid])

\* The six collectors of get_system_metrics, in call order (core.rs:89-94).
MetricsOrder ==
    <<"get_system_info", "get_cpu_info", "get_memory_info",
      "get_disk_info", "get_network_info", "get_processes">>

\* Index of the first failing collector, 0 when all succeed.
RECURSIVE FirstFailure(_, _)
FirstFailure(outs, i) ==
    IF i > Len(outs) THEN 0
    ELSE IF outs[i] # "ok" THEN i ELSE FirstFailure(outs, i + 1)

\* A collector call as it is observed: the operation, its pid argument,
\* what the collector met and, for get_cpu_info called on its own, the CPU
\* count it read (0 elsewhere).
Call(op, pid, outcome) == [op |-> op, pid |-> pid, outcome |-> outcome, cores |-> 0]
NoPid == <<0, 0>>
CpuCall(outcome, cores) ==
    [op |-> "get_cpu_info", pid |-> NoPid, outcome |-> outcome, cores |-> cores]

\* get_system_metrics as it would be if it called all six collectors before
\* looking at their failures.
get_system_metrics_CallsAll(outs) ==
    LET f == FirstFailure(outs, 1)
    IN [res |-> IF f = 0 THEN Ok([kind |-> "SystemMetrics"]) ELSE Err(outs[f]),
        calls |-> [i \in 1..Len(MetricsOrder) |-> Call(MetricsOrder[i], NoPid, outs[i])]]

\* SystemMonitor::get_system_metrics (core.rs:86-105): `?` returns at the
\* first failure; outs are the outcomes the six collectors would meet.
get_system_metrics(outs) ==
    LET f == FirstFailure(outs, 1)
        n == IF f = 0 THEN Len(MetricsOrder) ELSE f
    IN [res |-> IF f = 0 THEN Ok([kind |-> "SystemMetrics"]) ELSE Err(outs[f]),
        calls |-> [i \in 1..n |-> Call(MetricsOrder[i], NoPid, outs[i])]]

\* start_monitoring as it would be if it reported a transition on every call.
start_monitoring_AlwaysTrue(active) ==
    [res |-> Ok([kind |-> "started", flag |-> TRUE]), active |-> TRUE]

\* SystemMonitor::start_monitoring (core.rs:108-117)
\* start_monitoring as it would be if it reported the flag without setting it.
start_monitoring_NoLatch(active) ==
    [res |-> Ok([kind |-> "started", flag |-> ~active]), active |-> active]

start_monitoring(active) ==
    [res |-> Ok([kind |-> "started", flag |-> ~active]), active |-> TRUE]

\* The operation as it would be if stopping an inactive monitor were a
\* failure.
stop_monitoring_FailsWhenInactive(active) ==
    IF active THEN [res |-> Ok([kind |-> "stopped", flag |-> TRUE]), active |-> FALSE]
    ELSE [res |-> Err("Monitoring not active"), active |-> FALSE]

\* SystemMonitor::stop_monitoring (core.rs:120-129)
stop_monitoring(active) ==
    [res |-> Ok([kind |-> "stopped", flag |-> active]), active |-> FALSE]

\* A small unsigned integer as a JSON number.
JNat(k) == JPos(<<k, 0, 0, 0>>)

\* serde_json::to_value of a snapshot (the derived Serialize of
\* types/system.rs:10-117), with the members that differ in JSON kind: a
\* string, an unsigned integer, a float, an Option, a nested struct, a Vec.
CPUInfoJson(cores) ==
    JObject(<< <<"name", JStr("cpu")>>, <<"frequency", JNat(1)>>,
               <<"cores", JNat(cores)>>, <<"usage_percent", JFloat>>,
               <<"temperature", JNull>> >>)
SystemInfoJson ==
    JObject(<< <<"hostname", JStr("host")>>, <<"uptime", JNat(1)>> >>)
MemoryInfoJson ==
    JObject(<< <<"total", JNat(1)>>, <<"usage_percent", JFloat>> >>)
DiskInfoJson ==
    JObject(<< <<"name", JStr("disk")>>, <<"total_space", JNat(1)>> >>)
ProcessInfoJson(pid) ==
    JObject(<< <<"pid", JPos(<<pid[1], pid[2], 0, 0>>)>>, <<"name", JStr("proc")>> >>)
to_value(snapshot) ==
    CASE snapshot.kind = "get_system_info" -> SystemInfoJson
      [] snapshot.kind = "get_cpu_info" -> CPUInfoJson(snapshot.cores)
      [] snapshot.kind = "get_memory_info" -> MemoryInfoJson
      [] snapshot.kind = "get_disk_info" -> JArray(<<DiskInfoJson, DiskInfoJson>>)
      [] snapshot.kind = "get_network_info" -> JArray(<<>>)
      [] snapshot.kind = "get_processes" -> JArray(<<ProcessInfoJson(<<1, 0>>)>>)
      [] snapshot.kind = "ProcessInfo" -> ProcessInfoJson(snapshot.pid)
      [] snapshot.kind = "SystemMetrics" ->
            JObject(<< <<"system_info", SystemInfoJson>>,
                       <<"memory_info", MemoryInfoJson>>,
                       <<"disks", JArray(<<DiskInfoJson>>)>>,
                       <<"networks", JArray(<<>>)>> >>)
      [] OTHER -> snapshot

\* Operations whose SystemMonitor method begins with self.refresh().
Refreshes(op) == op \notin {"start_monitoring", "stop_monitoring"}

(***************************************************************************)
(* The Protocol Router (server.rs).                                        *)
(***************************************************************************)
\* A u32 as a TLC integer, for decimal rendering (pids below 2^31 only).
U32ToInt(p) == p[1] + 65536 * p[2]

\* The tools/call name -> monitor operation table (server.rs:154-163).
ToolOp(name) ==
    CASE name = "get_system_info" -> "get_system_info"
      [] name = "get_cpu_info" -> "get_cpu_info"
      [] name = "get_memory_info" -> "get_memory_info"
      [] name = "get_disk_info" -> "get_disk_info"
      [] name = "get_network_info" -> "get_network_info"
      [] name = "get_processes" -> "get_processes"
      [] name = "get_system_metrics" -> "get_system_metrics"
      [] OTHER -> "none"

\* The catalogue as it would be if it also advertised the pid lookup.
ToolCatalogue_WithProcessByPid ==
    <<"get_system_info", "get_cpu_info", "get_memory_info", "get_disk_info",
      "get_network_info", "get_processes", "get_process_by_pid",
      "get_system_metrics">>

\* The catalogue of handle_tools_list (server.rs:81-143).
ToolCatalogue ==
    <<"get_system_info", "get_cpu_info", "get_memory_info", "get_disk_info",
      "get_network_info", "get_processes", "get_system_metrics">>

\* The method table as it would be if names were matched without regard to
\* letter case.
MethodOp_IgnoreCase(method) ==
    CASE method \in {METHOD_GET_SYSTEM_INFO, "GETSYSTEMINFO"} -> "get_system_info"
      [] method \in {METHOD_GET_CPU_INFO, "getcpuinfo"} -> "get_cpu_info"
      [] method = METHOD_GET_MEMORY_INFO -> "get_memory_info"
      [] method = METHOD_GET_DISK_INFO -> "get_disk_info"
      [] method = METHOD_GET_NETWORK_INFO -> "get_network_info"
      [] method = METHOD_GET_PROCESSES -> "get_processes"
      [] method = METHOD_GET_PROCESS_BY_PID -> "get_process_by_pid"
      [] method = METHOD_GET_SYSTEM_METRICS -> "get_system_metrics"
      [] method = METHOD_START_MONITORING -> "start_monitoring"
      [] method = METHOD_STOP_MONITORING -> "stop_monitoring"
      [] OTHER -> "none"

\* The method -> monitor operation arms of handle_request (server.rs:45-54).
MethodOp(method) ==
    CASE method = METHOD_GET_SYSTEM_INFO -> "get_system_info"
      [] method = METHOD_GET_CPU_INFO -> "get_cpu_info"
      [] method = METHOD_GET_MEMORY_INFO -> "get_memory_info"
      [] method = METHOD_GET_DISK_INFO -> "get_disk_info"
      [] method = METHOD_GET_NETWORK_INFO -> "get_network_info"
      [] method = METHOD_GET_PROCESSES -> "get_processes"
      [] method = METHOD_GET_PROCESS_BY_PID -> "get_process_by_pid"
      [] method = METHOD_GET_SYSTEM_METRICS -> "get_system_metrics"
      [] method = METHOD_START_MONITORING -> "start_monitoring"
      [] method = METHOD_STOP_MONITORING -> "stop_monitoring"
      [] OTHER -> "none"

\* What a handler does before it asks for the monitor lock: either it
\* answers at once (op = "none", resp set) or it goes on to call monitor
\* operation op (with pid) and wraps the result when wrap is set.
\* The plan as it would be if the handlers that answer at once went through
\* the monitor first.
Immediate_UnderLock(resp) ==
    [op |-> "get_system_info", pid |-> NoPid, wrap |-> FALSE, resp |-> resp]

Immediate(resp) == [op |-> "none", pid |-> NoPid, wrap |-> FALSE, resp |-> resp]
Locked(op, pid, wrap) == [op |-> op, pid |-> pid, wrap |-> wrap, resp |-> NoResponse]

\* handle_initialize as it would be if only the server's own version were
\* accepted and every other request got the default.
handle_initialize_SupportedOnly(id, params) ==
    create_success_response(id,
        [kind |-> "initialize", protocolVersion |-> "2025-11-25",
         capabilities |-> "tools", serverName |-> "mcp-system-monitor",
         serverVersion |-> "0.1.0"])

\* handle_initialize (server.rs:60-78)
handle_initialize(id, params) ==
    LET v == Get(params, "protocolVersion")
        s == IF v = <<>> THEN <<>> ELSE as_str(v[1])
        requested_version == IF s = <<>> THEN "2025-11-25" ELSE s[1]
    IN create_success_response(id,
           [kind |-> "initialize", protocolVersion |-> requested_version,
            capabilities |-> "tools", serverName |-> "mcp-system-monitor",
            serverVersion |-> "0.1.0"])

\* handle_tools_list (server.rs:81-143)
handle_tools_list(id) ==
    create_success_response(id, [kind |-> "tools", tools |-> ToolCatalogue])

\* handle_tools_call up to the delegated handler (server.rs:146-163)
handle_tools_call(id, params) ==
    LET v == Get(params, "name")
        tool_name == IF v = <<>> THEN <<>> ELSE as_str(v[1])
        op == IF tool_name = <<>> THEN "none" ELSE ToolOp(tool_name[1])
    IN IF op = "none"
       THEN Immediate(create_error_response(id, ERROR_METHOD_NOT_FOUND, "Tool not found"))
       ELSE Locked(op, NoPid, TRUE)

\* handle_get_process_by_pid up to the lock (server.rs:293-312)
handle_get_process_by_pid(id, params) ==
    LET pid_value == Get(params, "pid")
    IN IF pid_value = <<>>
       THEN Immediate(create_error_response(id, ERROR_INVALID_PARAMS, "Missing PID parameter"))
       ELSE LET n == as_u64(pid_value[1])
            IN IF n = <<>>
               THEN Immediate(create_error_response(id, ERROR_INVALID_PARAMS, "Invalid PID parameter"))
               ELSE Locked("get_process_by_pid", AsU32(n[1]), FALSE)

\* handle_request (server.rs:30-57): the match on request.method, arm by arm.
\* The router as it would be if it rejected params it does not expect.
handle_request_StrictParams(request) ==
    IF request.params # EmptyObject
    THEN Immediate(create_error_response(request.id, ERROR_INVALID_PARAMS, "Invalid params"))
    ELSE IF MethodOp(request.method) # "none"
    THEN Locked(MethodOp(request.method), NoPid, FALSE)
    ELSE Immediate(create_success_response(request.id, [kind |-> "empty"]))

handle_request(request) ==
    LET id == request.id
        m == request.method
    IN IF m = "initialize" THEN Immediate(handle_initialize(id, request.params))
       ELSE IF m = "initialized"
            THEN Immediate(create_success_response(id, [kind |-> "empty"]))
       ELSE IF m = "tools/list" THEN Immediate(handle_tools_list(id))
       ELSE IF m = "tools/call" THEN handle_tools_call(id, request.params)
       ELSE IF m = METHOD_GET_PROCESS_BY_PID
            THEN handle_get_process_by_pid(id, request.params)
       ELSE IF MethodOp(m) # "none" THEN Locked(MethodOp(m), NoPid, FALSE)
       ELSE Immediate(create_error_response(id, ERROR_METHOD_NOT_FOUND, "Method not found"))

\* The text each handler puts before the collector's failure text.
FailurePrefix(op) ==
    CASE op = "get_system_info" -> "Failed to get system info: "
      [] op = "get_cpu_info" -> "Failed to get CPU info: "
      [] op = "get_memory_info" -> "Failed to get memory info: "
      [] op = "get_disk_info" -> "Failed to get disk info: "
      [] op = "get_network_info" -> "Failed to get network info: "
      [] op = "get_processes" -> "Failed to get processes: "
      [] op = "get_process_by_pid" -> "Failed to get process: "
      [] op = "get_system_metrics" -> "Failed to get system metrics: "
      [] op = "start_monitoring" -> "Failed to start monitoring: "
      [] OTHER -> "Failed to stop monitoring: "

\* Ok(None) as it would be answered if it were folded into the failure arm.
ProcessNotFound_AsInternal(id, pid) ==
    create_error_response(id, ERROR_INTERNAL_ERROR,
        "Failed to get process: " \o "Process with PID " \o ToDecimal(U32ToInt(pid)) \o " not found")

\* Ok(None) of get_process_by_pid (server.rs:320-324)
ProcessNotFound(id, pid) ==
    create_error_response(id, ERROR_PROCESS_NOT_FOUND,
        "Process with PID " \o ToDecimal(U32ToInt(pid)) \o " not found")

\* The failure arm as it would be if the collector's text were dropped.
InternalError_NoText(id, op, e) ==
    create_error_response(id, ERROR_INTERNAL_ERROR, FailurePrefix(op))

\* Err(e) of any monitor call (server.rs:186-193, 325-332, 344-351, ...)
InternalError(id, op, e) ==
    create_error_response(id, ERROR_INTERNAL_ERROR, FailurePrefix(op) \o e)

\* The match on the monitor's Result in each handler (server.rs:181-194,
\* 315-333, 358-374): the value, through serde_json::to_value (start and
\* stop build their json! object themselves), becomes the result, a failure
\* an error.
HandlerResponse(id, op, pid, res) ==
    IF ~res.ok THEN InternalError(id, op, res.err)
    ELSE IF res.val = <<>> THEN ProcessNotFound(id, pid)
    ELSE create_success_response(id, to_value(res.val[1]))

\* The content wrapper as it would be if a failure of the delegated handler
\* were reported in tools/call's own words.
WrapToolResponse_OwnError(id, tool_response) ==
    IF tool_response.result # <<>>
    THEN create_success_response(id,
             [kind |-> "content",
              content |-> <<[type |-> "text",
                             text |-> to_string_pretty(tool_response.result[1])]>>])
    ELSE create_error_response(id, ERROR_INTERNAL_ERROR, "Tool execution failed")

\* The content wrapper as it would be if the text were always the fallback
\* of unwrap_or_else.
WrapToolResponse_FallbackText(id, tool_response) ==
    IF tool_response.result # <<>>
    THEN create_success_response(id,
             [kind |-> "content",
              content |-> <<[type |-> "text", text |-> EmptyObjectText]>>])
    ELSE tool_response

\* The content wrapper of handle_tools_call (server.rs:166-175):
\* to_string_pretty of a Value does not fail, the fallback "{}" is not taken.
WrapToolResponse(id, tool_response) ==
    IF tool_response.result # <<>>
    THEN create_success_response(id,
             [kind |-> "content",
              content |-> <<[type |-> "text",
                             text |-> to_string_pretty(tool_response.result[1])]>>])
    ELSE tool_response

\* The SystemMonitor call as it would be if a failing collector also cleared
\* the monitoring flag.
MonitorOperation_FailureClears(op, pid, active, input) ==
    IF op = "get_system_metrics"
    THEN LET m == get_system_metrics(input)
         IN [res |-> m.res, calls |-> m.calls, active |-> active /\ m.res.ok]
    ELSE IF op = "get_process_by_pid"
    THEN [res |-> Linux_get_process_by_pid(pid, input),
          calls |-> <<Call(op, pid, input)>>, active |-> active]
    ELSE IF op = "get_cpu_info"
    THEN [res |-> Linux_get_cpu_info(input.cores, input.outcome),
          calls |-> <<CpuCall(input.outcome, input.cores)>>,
          active |-> active /\ Linux_get_cpu_info(input.cores, input.outcome).ok]
    ELSE IF op = "start_monitoring"
    THEN [res |-> start_monitoring(active).res, calls |-> <<>>,
          active |-> start_monitoring(active).active]
    ELSE IF op = "stop_monitoring"
    THEN [res |-> stop_monitoring(active).res, calls |-> <<>>,
          active |-> stop_monitoring(active).active]
    ELSE [res |-> LinuxCollect(op, input), calls |-> <<Call(op, NoPid, input)>>,
          active |-> active /\ LinuxCollect(op, input).ok]

\* The SystemMonitor call a handler makes under the lock: its Result, the
\* collectors it ran and the monitoring flag it leaves (core.rs:44-129).
MonitorOperation(op, pid, active, input) ==
    IF op = "get_system_metrics"
    THEN LET m == get_system_metrics(input)
         IN [res |-> m.res, calls |-> m.calls, active |-> active]
    ELSE IF op = "get_process_by_pid"
    THEN [res |-> Linux_get_process_by_pid(pid, input),
          calls |-> <<Call(op, pid, input)>>, active |-> active]
    ELSE IF op = "get_cpu_info"
    THEN [res |-> Linux_get_cpu_info(input.cores, input.outcome),
          calls |-> <<CpuCall(input.outcome, input.cores)>>, active |-> active]
    ELSE IF op = "start_monitoring"
    THEN [res |-> start_monitoring(active).res, calls |-> <<>>,
          active |-> start_monitoring(active).active]
    ELSE IF op = "stop_monitoring"
    THEN [res |-> stop_monitoring(active).res, calls |-> <<>>,
          active |-> stop_monitoring(active).active]
    ELSE [res |-> LinuxCollect(op, input), calls |-> <<Call(op, NoPid, input)>>,
          active |-> active]

\* The outcomes the environment can present to a monitor operation.
InputsFor(op) ==
    IF op = "get_system_metrics" THEN [1..Len(MetricsOrder) -> CollectorOutcomes]
    ELSE IF op = "get_process_by_pid" THEN PsOutcomes
    ELSE IF op = "get_cpu_info"
    THEN {[outcome |-> o, cores |-> n] : o \in CollectorOutcomes, n \in CoreCounts}
    ELSE IF op \in {"start_monitoring", "stop_monitoring"} THEN {"ok"}
    ELSE CollectorOutcomes

(***************************************************************************)
(* The transport adapters.                                                 *)
(***************************************************************************)
\* What an adapter sends for one request: nothing, a Content-Length frame
\* (stdio), an HTTP 200 with a JSON body, or an HTTP reply with a text body.
Output(kind, json) == [kind |-> kind, json |-> json]
NoOutput == Output("none", <<>>)

\* The parse-error body of the stdio adapter (stdio_server.rs:73-79).
ParseErrorJson ==
    [id |-> IdAbsent, result |-> <<>>,
     error |-> <<MCPError(ERROR_PARSE_ERROR, "Parse error")>>]

\* StdioServer::run, Ok(request) arm (stdio_server.rs:64-70): the response is
\* serialized, framed and flushed.
StdioWrite(request, response) ==
    Output("frame", <<SerializeResponse(response)>>)

\* HTTPServer::handle_mcp_request after dispatch (http_server.rs:354-377).
HttpReply(request, response) ==
    LET is_notification == request.id = <<>>
    IN IF is_notification THEN Output("http200", <<EmptyJson>>)
       ELSE Output("http200", <<SerializeResponse(response)>>)

(***************************************************************************)
(* The inputs.                                                             *)
(***************************************************************************)
WireIds ==
    {IdAbsent, IdNull, IdOther, IdStr("req-1"), IdStr("42"), IdNum(42), IdNum(-7)}

RecognizedMethods ==
    {"initialize", "initialized", "tools/list", "tools/call",
     METHOD_GET_SYSTEM_INFO, METHOD_GET_CPU_INFO, METHOD_GET_MEMORY_INFO,
     METHOD_GET_DISK_INFO, METHOD_GET_NETWORK_INFO, METHOD_GET_PROCESSES,
     METHOD_GET_PROCESS_BY_PID, METHOD_GET_SYSTEM_METRICS,
     METHOD_START_MONITORING, METHOD_STOP_MONITORING}

\* Method strings no arm matches: an unknown name, recognized names in another
\* letter case, a tool name used as a method, the empty string.
OtherMethods ==
    {"doesNotExist", "getcpuinfo", "GETSYSTEMINFO", "Initialize", "get_cpu_info", ""}

PidValues ==
    {JStr("1"), JNeg(U64_One), JFloat, JBool, JNull, JPos(U64_One),
     JPos(U64_999999), JPos(U64_TwoPow32), JPos(U64_TwoPow32Plus1)}

ToolNameValues ==
    {JStr(ToolCatalogue[i]) : i \in 1..Len(ToolCatalogue)}
        \cup {JStr("getCPUInfo"), JStr("get_process_by_pid"), JPos(U64_One)}

VersionValues ==
    {JStr("2099-01-01"), JStr("not a version"), JStr(""), JPos(U64_One), JNull}

\* <<method, params>> pairs offered to the router.
Calls ==
    {<<m, EmptyObject>> : m \in RecognizedMethods \cup OtherMethods}
        \cup {<<METHOD_GET_PROCESS_BY_PID, NullParams>>, <<"initialize", NullParams>>}
        \cup {<<METHOD_GET_PROCESS_BY_PID, Params("object", <<v>>, <<>>, <<>>)>> : v \in PidValues}
        \cup {<<"tools/call", Params("object", <<>>, <<v>>, <<>>)>> : v \in ToolNameValues}
        \cup {<<"initialize", Params("object", <<>>, <<>>, <<v>>)>> : v \in VersionValues}

\* A body that is not a request at all.
Malformed == WireMessage(FALSE, IdAbsent, "", NullParams)
\* A JSON object with an id and params but without the method member.
MissingMethod == WireMessage(FALSE, IdStr("req-1"), "", EmptyObject)

\* Every message the stdio adapter is offered.
WireMessages ==
    {WireMessage(TRUE, i, c[1], c[2]) : i \in WireIds, c \in Calls}
        \cup {Malformed, MissingMethod}

\* The bodies posted concurrently to the HTTP endpoint: each kind of
\* identifier on the methods that meet at the monitor lock (a collector
\* call and the two flag operations) and on one that stays clear of it.
HttpCalls ==
    {<<m, EmptyObject>> :
        m \in {METHOD_GET_MEMORY_INFO, METHOD_START_MONITORING,
               METHOD_STOP_MONITORING, "doesNotExist"}}
HttpBodies ==
    {WireMessage(TRUE, i, c[1], c[2]) :
        i \in {IdAbsent, IdStr("req-1"), IdNum(42)}, c \in HttpCalls}
        \cup {Malformed}

(***************************************************************************)
(* State.                                                                  *)
(***************************************************************************)
VARIABLES
    mode,               \* "stdio" (--stdio) or "http" (main.rs:61, 79-100)
    run,                \* StdioServer::run: "running", "exit_ok" (Ok(())), or the
                        \* error it returned: "exit_err" (an I/O error),
                        \* "exit_err_eof" (UnexpectedEof), "exit_err_utf8"
                        \* (FromUtf8Error), "exit_err_write" (a failed
                        \* write! or flush), or "panic" (it unwound)
    monitoring_active,  \* SystemMonitor.monitoring_active
    last_update,        \* SystemMonitor.last_update
    lock,               \* tasks holding the RwLock write guard
    task,               \* per task: where it is and its current request
    stdin,              \* standard input as a whole, when the run is over a given stream
    stdout,             \* the frames written to standard output in such a run
    memory              \* a call of LinuxSystemInfo::get_memory_info on its own:
                        \* what /proc/meminfo gave, the build, what was returned

vars == <<mode, run, monitoring_active, last_update, lock, task, stdin, stdout, memory>>

\* A task's record: pc is "ready" (nothing served yet), "wait_lock" (parked
\* in system_monitor.write().await), "in_lock" (holds the guard) or "done"
\* (the adapter has finished the request and is back at reading); wire is
\* the message being served, resp the MCPResponse handle_request returned,
\* calls the collectors run for it, out what the adapter sent.
TaskRecord(pc, wire, resp, calls, out) ==
    [pc |-> pc, wire |-> wire, resp |-> resp, calls |-> calls, out |-> out]

Idle(t) == task[t].pc \in {"ready", "done"}

\* One header block of stdin with what follows it: kind "frame" (a
\* Content-Length header and that many bytes of UTF-8, the body wire),
\* "no_length" (no parsable Content-Length header before the blank line) or
\* "bad_utf8" (a Content-Length header and that many bytes that are not
\* UTF-8), "oversized" (a Content-Length that parses as usize and is above
\* isize::MAX, the largest size a Vec can have).
Item(kind, wire) == [kind |-> kind, wire |-> wire]
\* A stdin stream: its header blocks in order, how it ends ("eof": end of
\* input where a header line is due, "short_body": end of input inside an
\* announced body, "io_error": a failing read), and the block the adapter
\* is to read next.  given is FALSE when stdin is left open-ended.
\* accepts is the number of frames standard output takes before write! or
\* flush fails.
Stream(given, items, ending, accepts, pos) ==
    [given |-> given, items |-> items, ending |-> ending, accepts |-> accepts,
     pos |-> pos]
NoStream == Stream(FALSE, <<>>, "eof", 0, 1)

\* The bodies of the frames of a given stream: a collector call, a
\* notification, text that is not a request.
StreamBodies ==
    {WireMessage(TRUE, IdNum(42), METHOD_GET_MEMORY_INFO, EmptyObject),
     WireMessage(TRUE, IdAbsent, "initialized", EmptyObject),
     Malformed}
StreamItems ==
    {Item("frame", w) : w \in StreamBodies}
        \cup {Item("no_length", Malformed), Item("bad_utf8", Malformed),
              Item("oversized", Malformed)}
Streams ==
    {Stream(TRUE, items, ending, accepts, 1) :
        items \in UNION {[1..n -> StreamItems] : n \in 0..MaxStream},
        ending \in {"eof", "short_body", "io_error"},
        accepts \in {0, 1, MaxStream}}

\* The adapter is at the end of the stream, which ends in the way e.
AtEnd(e) ==
    ~stdin.given \/ (stdin.pos > Len(stdin.items) /\ stdin.ending = e)
\* The next header block of the stream is the item (kind, w).
AtItem(kind, w) ==
    ~stdin.given
        \/ (stdin.pos <= Len(stdin.items) /\ stdin.items[stdin.pos] = Item(kind, w))
\* The header block (and its body bytes) have been read.
Consume == stdin' = IF stdin.given THEN [stdin EXCEPT !.pos = @ + 1] ELSE stdin
\* write! and flush of the frame out fail (a `?` return out of run).
WriteFails(out) ==
    stdin.given /\ out.kind # "none" /\ Len(stdout) >= stdin.accepts
\* Standard output after the adapter has sent out (write! and flush).
Written(out) ==
    IF stdin.given /\ out.kind # "none" /\ ~WriteFails(out)
    THEN Append(stdout, out) ELSE stdout
\* The run after the adapter has sent out.
RunAfter(out) == IF WriteFails(out) THEN "exit_err_write" ELSE run

Init ==
    /\ mode \in {"stdio", "http"}
    /\ run = "running"
    /\ monitoring_active = FALSE
    /\ last_update = 0
    /\ lock = {}
    /\ task = [t \in Tasks |-> TaskRecord("ready", Malformed, NoResponse, <<>>, NoOutput)]
    /\ stdin = NoStream
    /\ stdout = <<>>
    /\ memory = NoMemory

\* What the adapter of the running mode sends for a dispatched request.
Send(request, response) ==
    IF mode = "stdio" THEN StdioWrite(request, response)
    ELSE HttpReply(request, response)

\* A parsed request enters handle_request: it is answered at once, or the
\* task parks at the monitor lock.
\* The routes of HTTPServer::run (http_server.rs:72-87) that build a request
\* of their own, with the method each one sends.
SugarMethod(route) ==
    CASE route = "/api/system/info" -> METHOD_GET_SYSTEM_INFO
      [] route = "/api/system/cpu" -> METHOD_GET_CPU_INFO
      [] route = "/api/system/memory" -> METHOD_GET_MEMORY_INFO
      [] route = "/api/system/disks" -> METHOD_GET_DISK_INFO
      [] route = "/api/system/networks" -> METHOD_GET_NETWORK_INFO
      [] route = "/api/system/processes" -> METHOD_GET_PROCESSES
      [] route = "/api/system/processes/:pid" -> METHOD_GET_PROCESS_BY_PID
      [] route = "/api/system/metrics" -> METHOD_GET_SYSTEM_METRICS
      [] route = "/api/monitoring/start" -> METHOD_START_MONITORING
      [] route = "/api/monitoring/stop" -> METHOD_STOP_MONITORING
RouterRoutes ==
    {"/api/system/info", "/api/system/cpu", "/api/system/memory",
     "/api/system/disks", "/api/system/networks", "/api/system/processes",
     "/api/system/processes/:pid", "/api/system/metrics",
     "/api/monitoring/start", "/api/monitoring/stop"}
\* The routes that answer with a payload of their own.
StaticRoutes == {"/api/monitoring/status", "/health"}

\* The MCPRequest an endpoint builds: id Some(uuid::Uuid::new_v4()), its
\* method, params json!({}) or json!({"pid": pid}) with the u32 of the path.
SugarRequest(route, pid) ==
    [WireMessage(TRUE, IdStr("uuid"), SugarMethod(route),
                 IF route = "/api/system/processes/:pid"
                 THEN Params("object", <<JPos(pid)>>, <<>>, <<>>)
                 ELSE EmptyObject)
        EXCEPT !.route = route]
\* The pids GET /api/system/processes/{pid} is asked for.
PathPids == {U64_One, U64_999999}
SugarRequests ==
    {SugarRequest(r, U64_One) : r \in RouterRoutes}
        \cup {SugarRequest("/api/system/processes/:pid", p) : p \in PathPids}
\* A request without a body, on route.
RouteRequest(route) ==
    [WireMessage(FALSE, IdAbsent, "", NullParams) EXCEPT !.route = route]

\* The status an endpoint gives a response without a result: NOT_FOUND in
\* get_process_by_pid (http_server.rs:247-250), INTERNAL_SERVER_ERROR in the
\* others.
FailureStatus(route) ==
    IF route = "/api/system/processes/:pid" THEN "http404" ELSE "http500"
\* `match response.result` of the sugar endpoints: Ok(Json(result)) or
\* Err(status).
SugarReply(route, response) ==
    IF response.result # <<>> THEN Output("http200", <<response.result[1]>>)
    ELSE Output(FailureStatus(route), <<>>)
\* The HTTP status of what went out: a Json body and a String body are
\* both sent with 200 OK (axum's IntoResponse for Json<T> and for String).
StatusCode(out) ==
    CASE out.kind = "http200" -> 200
      [] out.kind = "http_text" -> 200
      [] out.kind = "sse" -> 200
      [] out.kind = "http404" -> 404
      [] out.kind = "http500" -> 500

\* Err(format!("JSON parse error: {}", e)) of handle_mcp_request
\* (http_server.rs:339-345): the String is the body, as text.
ParseFailureReply == Output("http_text", <<"JSON parse error: {e}">>)

\* What the adapter that took the request w sends out for response.
Reply(w, request, response) ==
    IF w.route = "rpc" THEN Send(request, response)
    ELSE SugarReply(w.route, response)

Dispatch(t, w) ==
    LET request == MCPRequest(w)
        plan == handle_request(request)
    IN /\ task' = [task EXCEPT ![t] =
              IF plan.op = "none"
              THEN TaskRecord("done", w, plan.resp, <<>>, Reply(w, request, plan.resp))
              ELSE TaskRecord("wait_lock", w, NoResponse, <<>>, NoOutput)]
       /\ stdout' = Written(task'[t].out)

(***************************************************************************)
(* StdioServer::run (stdio_server.rs:29-87): one pass of the loop per      *)
(* action, by what the input stream holds.  The adapter is task 1.         *)
(***************************************************************************)
\* The loop as it would be if it read the next header block without waiting
\* for handle_request to return.
StdioReading_WhileDispatching == mode = "stdio" /\ run = "running"

StdioReading == mode = "stdio" /\ run = "running" /\ Idle(1)

\* read_line returns 0 where a header line was expected: return Ok(()).
StdioEof ==
    /\ StdioReading
    /\ AtEnd("eof")
    /\ run' = "exit_ok"
    /\ UNCHANGED <<memory, mode, monitoring_active, last_update, lock, task, stdin, stdout>>

\* read_line fails with an I/O error: `?` returns it from run.
StdioReadError ==
    /\ StdioReading
    /\ AtEnd("io_error")
    /\ run' = "exit_err"
    /\ UNCHANGED <<memory, mode, monitoring_active, last_update, lock, task, stdin, stdout>>

\* The header block announced Content-Length n and the stream ends before n
\* body bytes: read_exact fails with UnexpectedEof and `?` returns it
\* (stdio_server.rs:59-60).
StdioShortBody ==
    /\ StdioReading
    /\ AtEnd("short_body")
    /\ run' = "exit_err_eof"
    /\ UNCHANGED <<memory, mode, monitoring_active, last_update, lock, task, stdin, stdout>>

\* The n body bytes were read but are not UTF-8: String::from_utf8 fails and
\* `?` returns the error (stdio_server.rs:61).
StdioBadUtf8 ==
    /\ StdioReading
    /\ AtItem("bad_utf8", Malformed)
    /\ Consume
    /\ run' = "exit_err_utf8"
    /\ UNCHANGED <<memory, mode, monitoring_active, last_update, lock, task, stdout>>

\* A header block without a parsable Content-Length: `continue`.
\* The header block announced a Content-Length above isize::MAX:
\* vec![0u8; length] panics with "capacity overflow" before anything is read
\* (stdio_server.rs:59); run does not return, the panic unwinds through main.
StdioOversizedLength ==
    /\ StdioReading
    /\ AtItem("oversized", Malformed)
    /\ Consume
    /\ run' = "panic"
    /\ UNCHANGED <<memory, mode, monitoring_active, last_update, lock, task, stdout>>

\* The header loop as it would be if a header block without a length ended
\* the run.
StdioNoContentLength_EndsRun ==
    /\ StdioReading
    /\ AtItem("no_length", Malformed)
    /\ Consume
    /\ run' = "exit_err"
    /\ UNCHANGED <<memory, mode, monitoring_active, last_update, lock, task, stdout>>

StdioNoContentLength ==
    /\ StdioReading
    /\ AtItem("no_length", Malformed)
    /\ Consume
    /\ UNCHANGED <<memory, mode, run, monitoring_active, last_update, lock, task, stdout>>

\* A complete frame with body w: a parse failure is answered with the
\* parse-error frame, a request is dispatched.
StdioFrame(w) ==
    /\ StdioReading
    /\ w \in WireMessages
    /\ AtItem("frame", w)
    /\ Consume
    /\ IF ParseOk(w)
       THEN Dispatch(1, w)
       ELSE /\ task' = [task EXCEPT ![1] =
                   TaskRecord("done", w, NoResponse, <<>>,
                              Output("frame", <<ParseErrorJson>>))]
            /\ stdout' = Written(task'[1].out)
    /\ run' = RunAfter(task'[1].out)
    /\ UNCHANGED <<memory, mode, monitoring_active, last_update, lock>>

(***************************************************************************)
(* HTTPServer::handle_mcp_request (http_server.rs:330-377), one task per   *)
(* request.                                                                *)
(***************************************************************************)
HttpPost(t, w) ==
    /\ mode = "http"
    /\ Idle(t)
    /\ w.route = "rpc"
    /\ IF ParseOk(w)
       THEN Dispatch(t, w)
       ELSE /\ task' = [task EXCEPT ![t] =
                   TaskRecord("done", w, NoResponse, <<>>, ParseFailureReply)]
            /\ UNCHANGED stdout
    /\ UNCHANGED <<memory, mode, run, monitoring_active, last_update, lock, stdin>>

\* One of the sugar endpoints that go through the router: it builds its
\* request and awaits server.handle_request (http_server.rs:108-315).
HttpSugar(t, w) ==
    /\ mode = "http"
    /\ Idle(t)
    /\ w \in SugarRequests
    /\ Dispatch(t, w)
    /\ UNCHANGED <<memory, mode, run, monitoring_active, last_update, lock, stdin>>

\* json!({"monitoring_active": true, "last_update": Utc::now(),
\* "service_status": "running"}) of get_monitoring_status and
\* json!({"status": "healthy", "service": ..., "timestamp": Utc::now()}) of
\* health_check; the wall clock reads as "now".
StaticPayload(route) ==
    IF route = "/api/monitoring/status"
    THEN JObject(<< <<"monitoring_active", JBoolOf(TRUE)>>, <<"last_update", JStr("now")>>,
                    <<"service_status", JStr("running")>> >>)
    ELSE JObject(<< <<"status", JStr("healthy")>>,
                    <<"service", JStr("MCP System Monitor")>>,
                    <<"timestamp", JStr("now")>> >>)

\* GET /api/monitoring/status and GET /health: the handler returns its
\* payload without the router (http_server.rs:98-106, 317-326).
HttpStatic(t, route) ==
    /\ mode = "http"
    /\ Idle(t)
    /\ route \in StaticRoutes
    /\ task' = [task EXCEPT ![t] =
           TaskRecord("done", RouteRequest(route), NoResponse, <<>>,
                      Output("http200", <<StaticPayload(route)>>))]
    /\ UNCHANGED <<memory, mode, run, monitoring_active, last_update, lock, stdin, stdout>>

\* The period of the interval of handle_sse, in seconds (http_server.rs:387).
HEARTBEAT_SECS == 10

\* The stream as it would be if it emitted heartbeat comments only, the
\* first after one period.
SseEvents_HeartbeatsOnly(n) ==
    [idx \in 1..n |-> [at |-> idx * HEARTBEAT_SECS, text |-> ":heartbeat"]]

\* The events of the stream of handle_sse after n ticks of its interval:
\* Event::default().data("") for the first, comment("heartbeat") for the
\* others (http_server.rs:387-399).  The first tick of a tokio interval
\* completes at once, each later one a period after the one before; at is
\* the time of the tick in seconds since the stream was made.
SseEvents(n) ==
    [idx \in 1..n |-> [at |-> (idx - 1) * HEARTBEAT_SECS,
                       text |-> IF idx = 1 THEN "data:" ELSE ":heartbeat"]]

\* GET /: handle_sse returns the stream (http_server.rs:380-403).
HttpSse(t) ==
    /\ mode = "http"
    /\ Idle(t)
    /\ task' = [task EXCEPT ![t] =
           TaskRecord("sse", RouteRequest("sse"), NoResponse, <<>>,
                      Output("sse", SseEvents(0)))]
    /\ UNCHANGED <<memory, mode, run, monitoring_active, last_update, lock, stdin, stdout>>

\* The interval of the stream ticks (at once the first time, then every 10
\* seconds) and the next event goes out.
SseTick(t) ==
    /\ task[t].pc = "sse"
    /\ Len(task[t].out.json) < MaxBeats
    /\ task' = [task EXCEPT ![t].out = Output("sse", SseEvents(Len(task[t].out.json) + 1))]
    /\ UNCHANGED <<memory, mode, run, monitoring_active, last_update, lock, stdin, stdout>>

\* The client disconnects and the stream is dropped.
SseClose(t) ==
    /\ task[t].pc = "sse"
    /\ task' = [task EXCEPT ![t].pc = "done"]
    /\ UNCHANGED <<memory, mode, run, monitoring_active, last_update, lock, stdin, stdout>>

(***************************************************************************)
(* The handlers at the monitor (server.rs:178-397).                        *)
(***************************************************************************)
\* The lock form as it would be if the handlers that only read system data
\* took the shared form.
LockForm_ReadForGetters(op) ==
    IF op \in {"start_monitoring", "stop_monitoring"} THEN "write" ELSE "read"

\* The form of the RwLock each handler asks for: system_monitor.write() in
\* all ten (server.rs:180, 199, 218, 237, 256, 275, 314, 338, 357, 379).
LockForm(op) == "write"

\* The monitor operation task t asks the lock for.
PlanOp(t) == handle_request(MCPRequest(task[t].wire)).op

\* tokio::sync::RwLock: write() is granted when no guard is alive, read()
\* when no write guard is alive; held are the forms of the guards alive.
Grantable(form, held) ==
    IF form = "write" THEN held = {} ELSE "write" \notin held

\* self.system_monitor.write().await is granted.
AcquireLock(t) ==
    /\ task[t].pc = "wait_lock"
    /\ Grantable(LockForm(PlanOp(t)), {LockForm(PlanOp(h)) : h \in lock})
    /\ lock' = lock \cup {t}
    /\ task' = [task EXCEPT ![t].pc = "in_lock"]
    /\ UNCHANGED <<memory, mode, run, monitoring_active, last_update, stdin, stdout>>

\* The guard as it would be if the error path returned without releasing it.
DropGuard_KeptOnError(t, response) == IF response.error # <<>> THEN {t} ELSE {}

\* The guard as it would be if a handler leaked it (never dropped).
DropGuard_Leaked(t, response) == {t}

\* The guards task t still holds after its handler has returned: the write
\* guard `monitor` goes out of scope on return, whatever the response
\* (server.rs:180-195).
DropGuard(t, response) == {}

\* The rest of the handler: the SystemMonitor call (which refreshes
\* last_update first), the response built from its Result, the guard dropped
\* on return, the tools/call wrapper, and the adapter sending the response.
MonitorCall(t) ==
    /\ task[t].pc = "in_lock"
    /\ t \in lock
    /\ LET w == task[t].wire
           request == MCPRequest(w)
           plan == handle_request(request)
       IN \E now \in last_update..MaxClock, input \in InputsFor(plan.op) :
            LET m == MonitorOperation(plan.op, plan.pid, monitoring_active, input)
                handled == HandlerResponse(request.id, plan.op, plan.pid, m.res)
                response == IF plan.wrap THEN WrapToolResponse(request.id, handled)
                            ELSE handled
            IN /\ last_update' = IF Refreshes(plan.op) THEN now ELSE last_update
               /\ monitoring_active' = m.active
               /\ task' = [task EXCEPT ![t] =
                      TaskRecord("done", w, response, m.calls, Reply(w, request, response))]
    /\ lock' = (lock \ {t}) \cup DropGuard(t, task'[t].resp)
    /\ stdout' = Written(task'[t].out)
    /\ run' = RunAfter(task'[t].out)
    /\ UNCHANGED <<memory, mode, stdin>>

Next ==
    \/ StdioEof
    \/ StdioReadError
    \/ StdioShortBody
    \/ StdioBadUtf8
    \/ StdioOversizedLength
    \/ StdioNoContentLength
    \/ \E w \in WireMessages : StdioFrame(w)
    \/ \E t \in Tasks, w \in HttpBodies : HttpPost(t, w)
    \/ \E t \in Tasks : AcquireLock(t)
    \/ \E t \in Tasks : MonitorCall(t)

Spec == Init /\ [][Next]_vars

(***************************************************************************)
(* HTTPServer::run with all its routes.                                    *)
(***************************************************************************)
\* The bodies POSTed to / next to the sugar endpoints: the methods that need
\* no monitor, one that needs it, and text that is not a request.
RestBodies ==
    {WireMessage(TRUE, IdStr("req-1"), "initialize", EmptyObject),
     WireMessage(TRUE, IdStr("req-1"), "tools/list", EmptyObject),
     WireMessage(TRUE, IdAbsent, "initialized", EmptyObject),
     WireMessage(TRUE, IdStr("req-1"), METHOD_GET_MEMORY_INFO, EmptyObject),
     Malformed}

RestInit ==
    /\ mode = "http"
    /\ run = "running"
    /\ monitoring_active = FALSE
    /\ last_update = 0
    /\ lock = {}
    /\ task = [t \in Tasks |-> TaskRecord("ready", Malformed, NoResponse, <<>>, NoOutput)]
    /\ stdin = NoStream
    /\ stdout = <<>>
    /\ memory = NoMemory

RestNext ==
    \/ \E t \in Tasks, w \in RestBodies : HttpPost(t, w)
    \/ \E t \in Tasks, w \in SugarRequests : HttpSugar(t, w)
    \/ \E t \in Tasks, r \in StaticRoutes : HttpStatic(t, r)
    \/ \E t \in Tasks : HttpSse(t)
    \/ \E t \in Tasks : SseTick(t)
    \/ \E t \in Tasks : SseClose(t)
    \/ \E t \in Tasks : AcquireLock(t)
    \/ \E t \in Tasks : MonitorCall(t)

RestSpec == RestInit /\ [][RestNext]_vars

\* The same server with the routes that need no monitor next to the bodies
\* POSTed to /, two of which call the monitor.
ProbeBodies ==
    RestBodies
        \cup {WireMessage(TRUE, IdStr("req-1"), METHOD_START_MONITORING, EmptyObject)}

ProbeNext ==
    \/ \E t \in Tasks, w \in ProbeBodies : HttpPost(t, w)
    \/ \E t \in Tasks, r \in StaticRoutes : HttpStatic(t, r)
    \/ \E t \in Tasks : HttpSse(t)
    \/ \E t \in Tasks : SseTick(t)
    \/ \E t \in Tasks : SseClose(t)
    \/ \E t \in Tasks : AcquireLock(t)
    \/ \E t \in Tasks : MonitorCall(t)

ProbeSpec == RestInit /\ [][ProbeNext]_vars

(***************************************************************************)
(* One client of POST / that sends the methods without parameters with     *)
(* params of every shape.                                                  *)
(***************************************************************************)
\* The recognized methods whose handlers take no params (server.rs:36-56).
NoParamMethods ==
    RecognizedMethods \ {"initialize", "tools/call", METHOD_GET_PROCESS_BY_PID}
\* The shapes of params: {}, absent or null, an object with members other
\* handlers read (a pid that is no number, a tool name, a version), an array.
ParamShapes ==
    {EmptyObject, NullParams,
     Params("object", <<JStr("1")>>, <<JStr("get_cpu_info")>>, <<JStr("2099-01-01")>>),
     Params("array", <<>>, <<>>, <<>>)}
ParamsBodies ==
    {WireMessage(TRUE, IdStr("req-1"), m, p) : m \in NoParamMethods, p \in ParamShapes}

ParamsNext ==
    \/ \E w \in ParamsBodies : HttpPost(1, w)
    \/ AcquireLock(1)
    \/ MonitorCall(1)

ParamsSpec == RestInit /\ [][ParamsNext]_vars

(***************************************************************************)
(* One client of POST / that sends requests with ids of every kind.        *)
(***************************************************************************)
IdSamples == WireIds \cup {IdStr("null"), IdStr("-7")}
IdBodies ==
    {WireMessage(TRUE, i, m, EmptyObject) :
        i \in IdSamples,
        m \in {"tools/list", METHOD_GET_MEMORY_INFO, METHOD_START_MONITORING}}

IdNext ==
    \/ \E w \in IdBodies : HttpPost(1, w)
    \/ AcquireLock(1)
    \/ MonitorCall(1)

IdSpec == RestInit /\ [][IdNext]_vars

(***************************************************************************)
(* Concurrent clients of POST / whose requests queue on the monitor lock.  *)
(* tokio's RwLock hands the lock to waiters in the order they asked, so a  *)
(* waiting task is granted it (strong fairness of AcquireLock).  A         *)
(* collector call returns: a task is not inside its monitor call for ever. *)
(* MonitorCall(t) is enabled exactly while t is inside its call and is the *)
(* only step that ends it, so this is WF_vars(MonitorCall(t)), stated on   *)
(* the states.                                                             *)
(***************************************************************************)
LockBodies ==
    {WireMessage(TRUE, IdStr("req-1"), "tools/list", EmptyObject),
     WireMessage(TRUE, IdStr("req-1"), "tools/call",
                 Params("object", <<>>, <<JStr("get_memory_info")>>, <<>>)),
     WireMessage(TRUE, IdStr("req-1"), METHOD_GET_SYSTEM_METRICS, EmptyObject),
     WireMessage(TRUE, IdStr("req-1"), METHOD_START_MONITORING, EmptyObject)}

LockNext ==
    \/ \E t \in Tasks, w \in LockBodies : HttpPost(t, w)
    \/ \E t \in Tasks : AcquireLock(t)
    \/ \E t \in Tasks : MonitorCall(t)

LockSpec == RestInit /\ [][LockNext]_vars

LockLive ==
    /\ LockSpec
    /\ \A t \in Tasks : SF_vars(AcquireLock(t))
    /\ \A t \in Tasks : []<>(task[t].pc # "in_lock")

(***************************************************************************)
(* Clients of POST / that send startMonitoring and stopMonitoring at the   *)
(* same time, one request per task; the flag is inactive (after            *)
(* construction or a stop) or active (after a start) when they arrive.     *)
(***************************************************************************)
RaceBodies ==
    {WireMessage(TRUE, i, m, EmptyObject) :
        i \in {IdStr("req-1"), IdNum(42)},
        m \in {METHOD_START_MONITORING, METHOD_STOP_MONITORING}}

RaceInit ==
    /\ mode = "http"
    /\ run = "running"
    /\ monitoring_active \in BOOLEAN
    /\ last_update = 0
    /\ lock = {}
    /\ task = [t \in Tasks |-> TaskRecord("ready", Malformed, NoResponse, <<>>, NoOutput)]
    /\ stdin = NoStream
    /\ stdout = <<>>
    /\ memory = NoMemory

\* The one request of task t arrives.
RacePost(t, w) == task[t].pc = "ready" /\ HttpPost(t, w)

RaceNext ==
    \/ \E t \in Tasks, w \in RaceBodies : RacePost(t, w)
    \/ \E t \in Tasks : AcquireLock(t)
    \/ \E t \in Tasks : MonitorCall(t)

RaceSpec == RaceInit /\ [][RaceNext]_vars

(***************************************************************************)
(* The bytes of the stdio frames (stdio_server.rs:34-85).  A text is a     *)
(* sequence of characters, a character the sequence of its UTF-8 bytes.    *)
(***************************************************************************)
RECURSIVE as_bytes(_)
as_bytes(text) ==
    IF text = <<>> THEN <<>> ELSE Head(text) \o as_bytes(Tail(text))
\* The number of characters of a text.
chars_count(text) == Len(text)
\* String::len(): the number of bytes of a text.
len(text) == Len(as_bytes(text))

\* Display of a usize: its decimal digits.
RECURSIVE usize_to_string(_)
usize_to_string(n) ==
    IF n < 10 THEN <<48 + n>> ELSE usize_to_string(n \div 10) \o <<48 + (n % 10)>>
\* str::parse::<usize>(): decimal digits after an optional "+"; <<>> is Err.
RECURSIVE DigitsValue(_, _)
DigitsValue(bytes, acc) ==
    IF bytes = <<>> THEN acc
    ELSE DigitsValue(Tail(bytes), acc * 10 + (Head(bytes) - 48))
parse_usize(bytes) ==
    LET digits == IF bytes # <<>> /\ Head(bytes) = 43 THEN Tail(bytes) ELSE bytes
    IN IF digits # <<>> /\ \A i \in 1..Len(digits) : digits[i] \in 48..57
       THEN <<DigitsValue(digits, 0)>> ELSE <<>>
\* str::trim(): without the white space at both ends.
WhiteSpace == {9, 10, 11, 12, 13, 32}
trim(bytes) ==
    LET inked == {i \in 1..Len(bytes) : bytes[i] \notin WhiteSpace}
    IN IF inked = {} THEN <<>>
       ELSE SubSeq(bytes, CHOOSE i \in inked : \A j \in inked : i <= j,
                          CHOOSE i \in inked : \A j \in inked : i >= j)
\* "Content-Length:" and "\r\n".
ContentLengthName == <<67, 111, 110, 116, 101, 110, 116, 45, 76, 101, 110, 103, 116, 104, 58>>
CRLF == <<13, 10>>
\* The frame as it would be if the header counted characters.
write_frame_CountingChars(text) ==
    ContentLengthName \o <<32>> \o usize_to_string(chars_count(text))
        \o CRLF \o CRLF \o as_bytes(text)
\* write!(out, "Content-Length: {}\r\n\r\n{}", json.len(), json)
\* (stdio_server.rs:68, 82).
write_frame(text) ==
    ContentLengthName \o <<32>> \o usize_to_string(len(text))
        \o CRLF \o CRLF \o as_bytes(text)

\* BufRead::read_line: the bytes up to and with the first "\n", or all.
read_line(bytes) ==
    LET ends == {i \in 1..Len(bytes) : bytes[i] = 10}
    IN IF ends = {} THEN bytes
       ELSE SubSeq(bytes, 1, CHOOSE i \in ends : \A j \in ends : i <= j)
After(bytes, n) == SubSeq(bytes, n + 1, Len(bytes))
\* header.strip_prefix("Content-Length:")
strip_prefix(header) ==
    IF Len(header) >= Len(ContentLengthName)
          /\ SubSeq(header, 1, Len(ContentLengthName)) = ContentLengthName
    THEN <<After(header, Len(ContentLengthName))>> ELSE <<>>
\* The header loop (stdio_server.rs:37-53) from bytes on: end of input, or
\* the content_length it leaves and the bytes after the blank line.
RECURSIVE ReadHeaders(_, _)
ReadHeaders(bytes, content_length) ==
    IF bytes = <<>> THEN [eof |-> TRUE, content_length |-> content_length, rest |-> <<>>]
    ELSE LET header == read_line(bytes)
             rest == After(bytes, Len(header))
             value == strip_prefix(header)
             length == IF value = <<>> THEN <<>> ELSE parse_usize(trim(value[1]))
         IN IF header = CRLF \/ header = <<10>>
            THEN [eof |-> FALSE, content_length |-> content_length, rest |-> rest]
            ELSE ReadHeaders(rest, IF length # <<>> THEN length ELSE content_length)
\* String::from_utf8 accepts the bytes (characters of one to three bytes).
RECURSIVE from_utf8_ok(_)
from_utf8_ok(bytes) ==
    IF bytes = <<>> THEN TRUE
    ELSE LET width == IF bytes[1] < 128 THEN 1
                      ELSE IF bytes[1] \in 192..223 THEN 2
                      ELSE IF bytes[1] \in 224..239 THEN 3 ELSE 0
         IN /\ width > 0
            /\ Len(bytes) >= width
            /\ \A i \in 2..width : bytes[i] \in 128..191
            /\ from_utf8_ok(After(bytes, width))
\* The read side of run (stdio_server.rs:34-61) over bytes: the payloads it
\* hands to the parser, until the input ends or a `?` returns.
RECURSIVE ReadFrames(_)
ReadFrames(bytes) ==
    LET h == ReadHeaders(bytes, <<>>)
    IN IF h.eof THEN <<>>
       ELSE IF h.content_length = <<>> THEN ReadFrames(h.rest)
       ELSE IF Len(h.rest) < h.content_length[1] THEN <<>>
       ELSE LET payload == SubSeq(h.rest, 1, h.content_length[1])
            IN IF ~from_utf8_ok(payload) THEN <<>>
               ELSE <<payload>> \o ReadFrames(After(h.rest, h.content_length[1]))

\* Texts serde_json::to_string can give: one line, ASCII and characters of
\* two and three bytes (serde_json writes them as they are).
BodyChars == {<<34>>, <<195, 169>>, <<226, 130, 172>>}
Braced(inner) == <<<<123>>>> \o inner \o <<<<125>>>>
FrameTexts ==
    {Braced(<<>>)} \cup {Braced(<<c>>) : c \in BodyChars}
        \cup {Braced(<<c, d>>) : c \in BodyChars, d \in BodyChars}
        \cup {Braced(<<c, c, c, c>>) : c \in BodyChars}

\* The frames on standard output as bytes.
RECURSIVE StdoutBytes(_)
StdoutBytes(frames) ==
    IF frames = <<>> THEN <<>>
    ELSE write_frame(Head(frames).json[1]) \o StdoutBytes(Tail(frames))

FrameInit ==
    /\ mode = "stdio"
    /\ run = "running"
    /\ monitoring_active = FALSE
    /\ last_update = 0
    /\ lock = {}
    /\ task = [t \in Tasks |-> TaskRecord("ready", Malformed, NoResponse, <<>>, NoOutput)]
    /\ stdin = NoStream
    /\ stdout = <<>>
    /\ memory = NoMemory

\* The adapter writes the frame of a serialized body (a response or the
\* parse-error body) to standard output (stdio_server.rs:66-69, 80-83).
StdioWriteFrame(text) ==
    /\ Len(stdout) < MaxStream
    /\ stdout' = Append(stdout, Output("frame", <<text>>))
    /\ UNCHANGED <<memory, mode, run, monitoring_active, last_update, lock, task, stdin>>

FrameNext == \E text \in FrameTexts : StdioWriteFrame(text)

FrameSpec == FrameInit /\ [][FrameNext]_vars

(***************************************************************************)
(* get_memory_info on its own, over what /proc/meminfo can give.           *)
(***************************************************************************)
MemoryInit ==
    /\ mode = "http"
    /\ run = "running"
    /\ monitoring_active = FALSE
    /\ last_update = 0
    /\ lock = {}
    /\ task = [t \in Tasks |-> TaskRecord("ready", Malformed, NoResponse, <<>>, NoOutput)]
    /\ stdin = NoStream
    /\ stdout = <<>>
    /\ memory \in {[read |-> <<r>>, build |-> b, info |-> <<>>] :
                       r \in MemInfoReads, b \in Builds}

GetMemoryInfo ==
    /\ memory.read # <<>>
    /\ memory.info = <<>>
    /\ memory' = [memory EXCEPT !.info = <<get_memory_info(memory.read[1], memory.build)>>]
    /\ UNCHANGED <<mode, run, monitoring_active, last_update, lock, task, stdin, stdout>>

MemoryNext == GetMemoryInfo

MemorySpec == MemoryInit /\ [][MemoryNext]_vars

(***************************************************************************)
(* StdioServer::run over a given, finite stdin stream.                     *)
(***************************************************************************)
StreamInit ==
    /\ mode = "stdio"
    /\ run = "running"
    /\ monitoring_active = FALSE
    /\ last_update = 0
    /\ lock = {}
    /\ task = [t \in Tasks |-> TaskRecord("ready", Malformed, NoResponse, <<>>, NoOutput)]
    /\ stdin \in Streams
    /\ stdout = <<>>
    /\ memory = NoMemory

StreamNext ==
    \/ StdioEof
    \/ StdioReadError
    \/ StdioShortBody
    \/ StdioBadUtf8
    \/ StdioOversizedLength
    \/ StdioNoContentLength
    \/ \E w \in WireMessages : StdioFrame(w)
    \/ AcquireLock(1)
    \/ MonitorCall(1)

StreamSpec == StreamInit /\ [][StreamNext]_vars

\* The loop of run is the only thing running: it takes its next step
\* whenever it has one.
StreamLive == StreamSpec /\ WF_vars(StreamNext)

\* The exit status as it would be if main ignored the adapter's error.
ExitStatus_ErrorIgnored(r) == 0

\* The status main ends the process with once StdioServer::run has returned
\* r (main.rs:38-43, 61): Ok(()) is 0, an Err from main is 1, and a panic
\* that unwinds through main is 101.
ExitStatus(r) == IF r = "exit_ok" THEN 0 ELSE IF r = "panic" THEN 101 ELSE 1

(***************************************************************************)
(* Properties.                                                             *)
(***************************************************************************)
\* Task t has finished serving a message that parsed as a request.
Served(t) == task[t].pc = "done" /\ ParseOk(task[t].wire)
\* The request task t is serving or has served.
Request(t) == MCPRequest(task[t].wire)
\* In this step task t finishes a request.
Finishes(t) == task'[t] # task[t] /\ task'[t].pc = "done"

\* C1: for every request that carries a string or an integer identifier, on
\* every method and in every interleaving, the response the adapter emits
\* carries the same identifier in the same JSON kind (a number stays a
\* number, a string a string).
C1_IdEchoedWithKind ==
    \A t \in Tasks :
        (Served(t) /\ task[t].wire.id.kind \in {"string", "number"})
            => /\ task[t].out.json # <<>>
               /\ task[t].out.json[1].id = task[t].wire.id

\* C2: every MCPResponse handle_request returns has exactly one of result
\* and error set.
C2_ExactlyOneOfResultError ==
    \A t \in Tasks :
        Served(t) => ((task[t].resp.result = <<>>) # (task[t].resp.error = <<>>))

\* C2 witness: a tools/call whose delegated handler failed has been answered
\* (the path on which the handler's own response is passed through).
C2_Witness ==
    \E t \in Tasks :
        /\ Served(t)
        /\ task[t].wire.method = "tools/call"
        /\ task[t].calls # <<>>
        /\ task[t].resp.error # <<>>
        /\ task[t].resp.result = <<>>

\* C3: on stdio, a well-formed framed request without an identifier makes
\* the adapter write nothing before it is back at reading the next header.
C3_StdioNotificationSilent ==
    (mode = "stdio" /\ Served(1) /\ task[1].wire.id.kind = "absent")
        => task[1].out.kind = "none"

\* C4: on POST /, a parsed request without an identifier is dispatched, and
\* the reply carries no envelope (no id, no result, no error) and no body.
C4_HttpNotificationNoBody ==
    \A t \in Tasks :
        (mode = "http" /\ Served(t) /\ task[t].wire.id.kind = "absent")
            => /\ task[t].resp # NoResponse
               /\ task[t].out.json = <<>>

\* The response is the error (code, message) with no result.
IsError(resp, code, message) ==
    /\ resp.result = <<>>
    /\ resp.error = <<[code |-> code, message |-> message]>>
\* The code of an error response, 0 for a success.
ErrorCode(resp) == IF resp.error = <<>> THEN 0 ELSE resp.error[1].code

\* C5 (state part): a method string that is not exactly a recognized name is
\* answered with -32601 "Method not found", no result and no collector call;
\* a recognized name never is, and a recognized single-collector method runs
\* exactly its own collector.
C5_State ==
    \A t \in Tasks :
        Served(t) =>
            IF task[t].wire.method \in RecognizedMethods
            THEN /\ ~IsError(task[t].resp, ERROR_METHOD_NOT_FOUND, "Method not found")
                 /\ (task[t].wire.method \in
                        {METHOD_GET_SYSTEM_INFO, METHOD_GET_CPU_INFO, METHOD_GET_MEMORY_INFO,
                         METHOD_GET_DISK_INFO, METHOD_GET_NETWORK_INFO, METHOD_GET_PROCESSES})
                        => /\ Len(task[t].calls) = 1
                           /\ task[t].calls[1].op = MethodOp(task[t].wire.method)
            ELSE /\ IsError(task[t].resp, ERROR_METHOD_NOT_FOUND, "Method not found")
                 /\ task[t].resp.id = Request(t).id
                 /\ task[t].calls = <<>>

\* C5 (step part): such a request is answered in the step that receives it,
\* without the lock, and leaves the monitor's state as it was.
C5_Step ==
    \A t \in Tasks :
        (Finishes(t) /\ ParseOk(task'[t].wire)
                     /\ task'[t].wire.method \notin RecognizedMethods)
            => /\ Idle(t)
               /\ UNCHANGED <<monitoring_active, last_update, lock>>

\* C5: method dispatch is exact-match and case-sensitive; every other method
\* string gets -32601 "Method not found" without a collector call and
\* without a change of the monitor's state.
C5_ExactMatchDispatch == [](C5_State) /\ [][C5_Step]_vars

\* C5 witness: a recognized name in another letter case has been answered
\* with -32601 while the monitor was in a state a change would show.
C5_Witness ==
    \E t \in Tasks :
        /\ Served(t)
        /\ task[t].wire.method = "getcpuinfo"
        /\ ErrorCode(task[t].resp) = ERROR_METHOD_NOT_FOUND
        /\ monitoring_active
        /\ last_update > 0

\* The responses handle_request can give to a request, over every flag value
\* and every collector outcome.
NormalResponses(request) ==
    LET plan == handle_request(request)
    IN IF plan.op = "none" THEN {plan.resp}
       ELSE {LET handled == HandlerResponse(request.id, plan.op, plan.pid,
                                MonitorOperation(plan.op, plan.pid, a, i).res)
             IN IF plan.wrap THEN WrapToolResponse(request.id, handled) ELSE handled :
                a \in BOOLEAN, i \in InputsFor(plan.op)}

\* C6 (step part): the step that answers a request with an error leaves the
\* adapter running, at reading the next request, and task t without the lock.
C6_Step ==
    \A t \in Tasks :
        (Finishes(t) /\ ParseOk(task'[t].wire) /\ task'[t].resp.error # <<>>)
            => /\ run' = "running"
               /\ t \notin lock'
               /\ task'[t].pc \in {"ready", "done"}

\* C6 (state part): whatever was answered before, every answered request has
\* one of the responses handle_request gives to that request.
C6_State ==
    \A t \in Tasks : Served(t) => task[t].resp \in NormalResponses(Request(t))

\* C6: after a request that produced an error response the adapter stays
\* usable (the stdio loop is back at reading, the HTTP server accepts) and a
\* following well-formed request gets its normal response.
C6_UsableAfterError == [][C6_Step]_vars /\ [](C6_State)

\* C6 witness: an internal error has been answered and the adapter is
\* running with the lock free.
C6_Witness ==
    \E t \in Tasks :
        /\ Served(t)
        /\ ErrorCode(task[t].resp) = ERROR_INTERNAL_ERROR
        /\ run = "running"
        /\ lock = {}

\* The collector call met a failure.
Failed(c) == c.outcome \notin {"ok", "row", "no_row", "short_row"}
\* The failure text the collector returned.
FailureText(c) ==
    IF c.op = "get_process_by_pid" THEN Linux_get_process_by_pid(c.pid, c.outcome).err
    ELSE LinuxCollect(c.op, c.outcome).err
Last(q) == q[Len(q)]

\* C7 (state part): a domain method whose monitor call failed is answered
\* with -32603, the handler's prefix followed by the failure text, the
\* request's id and no result.
C7_State ==
    \A t \in Tasks :
        (Served(t) /\ MethodOp(task[t].wire.method) # "none"
                   /\ task[t].calls # <<>> /\ Failed(Last(task[t].calls)))
            => /\ IsError(task[t].resp, ERROR_INTERNAL_ERROR,
                          FailurePrefix(MethodOp(task[t].wire.method))
                              \o FailureText(Last(task[t].calls)))
               /\ task[t].resp.id = Request(t).id
               /\ task[t].out.kind # "none"

\* C7 (step part): the failing step leaves the adapter running, the lock
\* free and the monitoring flag as it was.
C7_Step ==
    \A t \in Tasks :
        (Finishes(t) /\ task'[t].calls # <<>> /\ Failed(Last(task'[t].calls)))
            => /\ run' = "running"
               /\ lock' = {}
               /\ monitoring_active' = monitoring_active

\* C7: a failing Monitor Capability call becomes an internal-error response
\* (-32603) with the failure text and the request's id; the loop goes on,
\* the lock is released and the monitoring flag is unchanged.
C7_CollectorFailureIsolated == [](C7_State) /\ [][C7_Step]_vars

\* C7 witness: getSystemMetrics failed at its third collector while
\* monitoring was active.
C7_Witness ==
    \E t \in Tasks :
        /\ Served(t)
        /\ task[t].wire.method = METHOD_GET_SYSTEM_METRICS
        /\ Len(task[t].calls) = 3
        /\ Failed(Last(task[t].calls))
        /\ ErrorCode(task[t].resp) = ERROR_INTERNAL_ERROR
        /\ monitoring_active

\* C8: getProcessByPID for which the monitor reports no matching process is
\* answered with -32001, never -32603; -32603 only when the call fails.
C8_NotFoundIsNotInternal ==
    \A t \in Tasks :
        (Served(t) /\ task[t].wire.method = METHOD_GET_PROCESS_BY_PID
                   /\ task[t].calls # <<>>)
            => LET c == task[t].calls[1]
               IN /\ c.outcome \in {"no_row", "short_row"}
                      => /\ ErrorCode(task[t].resp) = ERROR_PROCESS_NOT_FOUND
                         /\ task[t].resp.result = <<>>
                  /\ ErrorCode(task[t].resp) = ERROR_INTERNAL_ERROR => Failed(c)

\* C8 witness: pid 999999 was looked up, ps printed no row, -32001 answered.
C8_Witness ==
    \E t \in Tasks :
        /\ Served(t)
        /\ task[t].calls = <<Call("get_process_by_pid", AsU32(U64_999999), "no_row")>>
        /\ ErrorCode(task[t].resp) = ERROR_PROCESS_NOT_FOUND

\* The pid member of the request is missing or is not a non-negative integer.
BadPid(params) ==
    \/ Get(params, "pid") = <<>>
    \/ Get(params, "pid")[1].t # "posint"

\* C9 (state part): such a getProcessByPID is answered with -32602, no
\* result and no collector call.
C9_State ==
    \A t \in Tasks :
        (Served(t) /\ task[t].wire.method = METHOD_GET_PROCESS_BY_PID
                   /\ BadPid(task[t].wire.params))
            => /\ ErrorCode(task[t].resp) = ERROR_INVALID_PARAMS
               /\ task[t].resp.result = <<>>
               /\ task[t].resp.id = Request(t).id
               /\ task[t].calls = <<>>

\* C9 (step part): it is answered in the step that receives it, without the
\* lock, and the monitor's state stays as it was.
C9_Step ==
    \A t \in Tasks :
        (Finishes(t) /\ ParseOk(task'[t].wire)
                     /\ task'[t].wire.method = METHOD_GET_PROCESS_BY_PID
                     /\ BadPid(task'[t].wire.params))
            => /\ Idle(t)
               /\ UNCHANGED <<monitoring_active, last_update, lock>>

\* C9: getProcessByPID without a pid, or with a pid that is not a
\* non-negative integer, gets -32602 without the lock, without a collector
\* call and without a change of the monitor's state.
C9_InvalidPidRejected == [](C9_State) /\ [][C9_Step]_vars

\* C9 witness: a negative pid has been rejected while monitoring was active.
C9_Witness ==
    \E t \in Tasks :
        /\ Served(t)
        /\ task[t].wire.method = METHOD_GET_PROCESS_BY_PID
        /\ Get(task[t].wire.params, "pid") = <<JNeg(U64_One)>>
        /\ ErrorCode(task[t].resp) = ERROR_INVALID_PARAMS
        /\ monitoring_active
        /\ last_update > 0

\* The u64 fits the 32 bits of a u32.
FitsU32(n) == n[3] = 0 /\ n[4] = 0

\* C10: a non-negative integer pid of 2^32 or more is rejected with -32602,
\* and the pid handed to the Monitor Capability always equals the request's.
C10_PidNeverTruncated ==
    \A t \in Tasks :
        (Served(t) /\ task[t].wire.method = METHOD_GET_PROCESS_BY_PID
                   /\ ~BadPid(task[t].wire.params))
            => LET n == Get(task[t].wire.params, "pid")[1].n
               IN /\ ~FitsU32(n) => /\ ErrorCode(task[t].resp) = ERROR_INVALID_PARAMS
                                    /\ task[t].calls = <<>>
                  /\ task[t].calls # <<>> => U32ToU64(task[t].calls[1].pid) = n

\* The success response that reports the boolean b under the member `kind`
\* ("started" / "stopped").
ReportsFlag(resp, kind, b) ==
    /\ resp.error = <<>>
    /\ resp.result = <<[kind |-> kind, flag |-> b]>>

\* C11 (step part): a startMonitoring answered in this step reports true
\* exactly when the flag was inactive before and leaves it active; a
\* stopMonitoring reports true exactly when it was active and leaves it
\* inactive; both are success responses, so a redundant call reports false,
\* changes nothing and is never an error.
C11_Step ==
    \A t \in Tasks :
        Finishes(t) =>
            /\ (ParseOk(task'[t].wire) /\ task'[t].wire.method = METHOD_START_MONITORING)
                   => /\ ReportsFlag(task'[t].resp, "started", ~monitoring_active)
                      /\ task'[t].resp.id = MCPRequest(task'[t].wire).id
                      /\ monitoring_active'
            /\ (ParseOk(task'[t].wire) /\ task'[t].wire.method = METHOD_STOP_MONITORING)
                   => /\ ReportsFlag(task'[t].resp, "stopped", monitoring_active)
                      /\ task'[t].resp.id = MCPRequest(task'[t].wire).id
                      /\ ~monitoring_active'

\* C11: the monitoring flag starts inactive and is a latch: start reports
\* true exactly when it was inactive and leaves it active, stop reports true
\* exactly when it was active and leaves it inactive, a redundant call
\* reports false in a success response and changes nothing.
C11_MonitoringLatch == (monitoring_active = FALSE) /\ [][C11_Step]_vars

\* C11 witness: a redundant startMonitoring (the flag was already active) has
\* been answered with started = false and the flag is still active.
C11_Witness ==
    \E t \in Tasks :
        /\ Served(t)
        /\ task[t].wire.method = METHOD_START_MONITORING
        /\ ReportsFlag(task[t].resp, "started", FALSE)
        /\ monitoring_active

\* C12 (step part): a step that changes the monitoring flag is the step in
\* which a startMonitoring or stopMonitoring request is answered; every
\* other step (any other method, tools/call with any name, a body that is
\* not a request, a failing collector, the adapter ending) leaves it.
C12_Step ==
    monitoring_active' # monitoring_active
        => \E t \in Tasks :
              /\ Finishes(t)
              /\ task[t].pc = "in_lock"
              /\ ParseOk(task'[t].wire)
              /\ task'[t].wire.method \in {METHOD_START_MONITORING, METHOD_STOP_MONITORING}

\* C12: the monitoring flag is changed only by startMonitoring and
\* stopMonitoring; every other request leaves it exactly as it was.
C12_FlagChangedOnlyByStartStop == [][C12_Step]_vars

\* C12 witness: a tools/call whose collector failed has been answered with
\* the flag still active.
C12_Witness ==
    \E t \in Tasks :
        /\ Served(t)
        /\ task[t].wire.method = "tools/call"
        /\ task[t].calls # <<>>
        /\ Failed(Last(task[t].calls))
        /\ monitoring_active

\* C13 (state part): at most one task holds the monitor lock, the holders
\* are exactly the tasks inside a handler's monitor call, and each holds
\* the exclusive (write) form.
C13_State ==
    /\ Cardinality(lock) <= 1
    /\ \A t \in Tasks : (t \in lock) <=> (task[t].pc = "in_lock")
    /\ \A t \in lock : LockForm(PlanOp(t)) = "write"

\* C13 (step part): the monitor is called, and its state changed, only by
\* the task that holds the lock, and the step in which a handler returns,
\* with a result or with an error, releases the lock.
C13_Step ==
    /\ \A t \in Tasks :
          Finishes(t) =>
              /\ t \notin lock'
              /\ (task'[t].calls # <<>>) => (lock = {t})
    /\ (<<monitoring_active, last_update>>' # <<monitoring_active, last_update>>)
          => \E t \in Tasks : lock = {t} /\ Finishes(t) /\ lock' = {}

\* C13: all Monitor Capability operations are serialized: at most one
\* handler is between acquiring and releasing the lock, every handler takes
\* the write form, and the lock is released when the handler returns on the
\* success and on the failure path.
C13_MonitorSerialized == [](C13_State) /\ [][C13_Step]_vars

\* C13 witness: two requests are handled concurrently; one has finished a
\* failing monitor call and released the lock, the other now holds it.
C13_Witness ==
    \E t, u \in Tasks :
        /\ t # u
        /\ Served(t)
        /\ ErrorCode(task[t].resp) = ERROR_INTERNAL_ERROR
        /\ task[u].pc = "in_lock"
        /\ lock = {u}

\* The Result the monitor gave to operation op, from the collector calls
\* observed for it.
ResultOfCalls(op, calls) ==
    IF op = "get_system_metrics"
    THEN IF Failed(Last(calls)) THEN Err(FailureText(Last(calls)))
         ELSE Ok([kind |-> "SystemMetrics"])
    ELSE IF op = "get_cpu_info"
    THEN Linux_get_cpu_info(calls[1].cores, calls[1].outcome)
    ELSE LinuxCollect(op, calls[1].outcome)

\* The response of the handler a tools/call of task t was delegated to.
UnderlyingResponse(t) ==
    HandlerResponse(Request(t).id, PlanOp(t), NoPid,
                    ResultOfCalls(PlanOp(t), task[t].calls))

\* Task t has been answered a tools/call that reached a listed tool.
ToolCalled(t) ==
    /\ Served(t)
    /\ task[t].wire.method = "tools/call"
    /\ PlanOp(t) # "none"
    /\ task[t].calls # <<>>

\* The JSON number is an integer greater than 0.
Positive(v) == v.t = "posint" /\ v.n # NoLimbs

\* C14: a tools/call of a listed tool whose handler succeeds with result R
\* is answered with a success response with the request's id whose result
\* is one content block of type "text" whose text parses back into exactly
\* R; for get_cpu_info the parsed text has a cores member greater than 0.
C14_ToolResultWrapped ==
    \A t \in Tasks :
        (ToolCalled(t) /\ UnderlyingResponse(t).result # <<>>)
            => /\ task[t].resp.id = Request(t).id
               /\ task[t].resp.error = <<>>
               /\ task[t].resp.result # <<>>
               /\ LET r == task[t].resp.result[1]
                  IN /\ r.kind = "content"
                     /\ Len(r.content) = 1
                     /\ r.content[1].type = "text"
                     /\ LET parsed == from_str(r.content[1].text)
                        IN /\ parsed = UnderlyingResponse(t).result
                           /\ PlanOp(t) = "get_cpu_info"
                                 => /\ Member(parsed[1], "cores") # <<>>
                                    /\ Positive(Member(parsed[1], "cores")[1])

\* C14 witness: tools/call get_cpu_info with a numeric id has succeeded on a
\* machine with the largest CPU count, and the text is not the bare result.
C14_Witness ==
    \E t \in Tasks :
        /\ ToolCalled(t)
        /\ task[t].wire.id = IdNum(42)
        /\ task[t].calls = <<CpuCall("ok", MaxCores)>>
        /\ task[t].resp.result # <<>>
        /\ Len(task[t].resp.result[1].content[1].text) > 1

\* C15: a tools/call whose delegated handler fails is answered with that
\* handler's error response unchanged: the same id, code and message, no
\* content wrapper and no result.
C15_ToolErrorUnchanged ==
    \A t \in Tasks :
        (ToolCalled(t) /\ UnderlyingResponse(t).error # <<>>)
            => /\ task[t].resp = UnderlyingResponse(t)
               /\ task[t].resp.id = Request(t).id
               /\ task[t].resp.result = <<>>
               /\ IsError(task[t].resp, ERROR_INTERNAL_ERROR,
                          FailurePrefix(PlanOp(t)) \o FailureText(Last(task[t].calls)))

\* C15 witness: tools/call get_processes with a string id failed in its
\* collector and was answered with the handler's -32603.
C15_Witness ==
    \E t \in Tasks :
        /\ ToolCalled(t)
        /\ PlanOp(t) = "get_processes"
        /\ task[t].wire.id = IdStr("req-1")
        /\ Failed(Last(task[t].calls))
        /\ task[t].resp.error = <<MCPError(ERROR_INTERNAL_ERROR,
                "Failed to get processes: Failed to execute command")>>

\* The names a tools/list response advertises.
AdvertisedNames(resp) ==
    {resp.result[1].tools[i] : i \in 1..Len(resp.result[1].tools)}
\* The strings offered as a tool name, and those among them tools/call
\* dispatches to a handler.
OfferedNames == {v.s : v \in {x \in ToolNameValues : x.t = "string"}}
DispatchedNames == {n \in OfferedNames : ToolOp(n) # "none"}
\* The name member of a tools/call is a string that tools/list advertises.
NamesListedTool(params) ==
    /\ Get(params, "name") # <<>>
    /\ Get(params, "name")[1].t = "string"
    /\ Get(params, "name")[1].s \in AdvertisedNames(handle_tools_list(<<>>))

\* C16 (state part): every tools/list response advertises exactly the names
\* tools/call dispatches; a tools/call with a listed name runs that tool's
\* collector(s) and is not answered "Tool not found"; with an unlisted, a
\* missing or a non-string name it is answered -32601 with no collector call.
C16_State ==
    \A t \in Tasks :
        /\ (Served(t) /\ task[t].wire.method = "tools/list")
              => AdvertisedNames(task[t].resp) = DispatchedNames
        /\ (Served(t) /\ task[t].wire.method = "tools/call")
              => IF NamesListedTool(task[t].wire.params)
                 THEN /\ PlanOp(t) = Get(task[t].wire.params, "name")[1].s
                      /\ task[t].calls # <<>>
                      /\ task[t].calls[1].op =
                            (IF PlanOp(t) = "get_system_metrics" THEN MetricsOrder[1]
                             ELSE PlanOp(t))
                      /\ ErrorCode(task[t].resp) # ERROR_METHOD_NOT_FOUND
                 ELSE /\ IsError(task[t].resp, ERROR_METHOD_NOT_FOUND, "Tool not found")
                      /\ task[t].resp.id = Request(t).id
                      /\ task[t].calls = <<>>

\* C16 (step part): the tools/call with such a name is answered in the step
\* that receives it, without the lock and without a change of the monitor.
C16_Step ==
    \A t \in Tasks :
        (Finishes(t) /\ ParseOk(task'[t].wire) /\ task'[t].wire.method = "tools/call"
                     /\ ~NamesListedTool(task'[t].wire.params))
            => /\ Idle(t)
               /\ UNCHANGED <<monitoring_active, last_update, lock>>

\* C16: the names tools/list advertises are the names tools/call dispatches:
\* every listed name reaches its handler, every other name (or a missing or
\* non-string name) gets -32601 without a collector call.
C16_CatalogueMatchesDispatch == [](C16_State) /\ [][C16_Step]_vars

\* C16 witness: the name of a method that is not a tool has been refused
\* while monitoring was active and the clock had moved.
C16_Witness ==
    \E t \in Tasks :
        /\ Served(t)
        /\ task[t].wire.method = "tools/call"
        /\ Get(task[t].wire.params, "name") = <<JStr("get_process_by_pid")>>
        /\ IsError(task[t].resp, ERROR_METHOD_NOT_FOUND, "Tool not found")
        /\ monitoring_active
        /\ last_update > 0

\* The version initialize is to answer with: the protocolVersion member when
\* it is a string, the default otherwise.
ExpectedVersion(params) ==
    IF Get(params, "protocolVersion") # <<>> /\ Get(params, "protocolVersion")[1].t = "string"
    THEN Get(params, "protocolVersion")[1].s
    ELSE "2025-11-25"

\* C17 (state part): initialize is answered with a success response with the
\* request's id whose protocolVersion is the client's string, whatever it
\* is, or the default when the member is absent or not a string; the
\* capabilities and serverInfo are the same in every response.
C17_State ==
    \A t \in Tasks :
        (Served(t) /\ task[t].wire.method = "initialize")
            => /\ task[t].resp.id = Request(t).id
               /\ task[t].resp.error = <<>>
               /\ task[t].resp.result =
                     <<[kind |-> "initialize",
                        protocolVersion |-> ExpectedVersion(task[t].wire.params),
                        capabilities |-> "tools",
                        serverName |-> "mcp-system-monitor",
                        serverVersion |-> "0.1.0"]>>
               /\ task[t].calls = <<>>

\* C17 (step part): initialize is answered in the step that receives it and
\* leaves the monitor as it was.
C17_Step ==
    \A t \in Tasks :
        (Finishes(t) /\ ParseOk(task'[t].wire) /\ task'[t].wire.method = "initialize")
            => /\ Idle(t)
               /\ UNCHANGED <<monitoring_active, last_update, lock>>

\* C17: initialize echoes the client's protocolVersion string without
\* validating it, answers the default version when the member is absent or
\* not a string, and gives the same capabilities and serverInfo every time.
C17_InitializeEchoesVersion == [](C17_State) /\ [][C17_Step]_vars

\* C17 witness: a version no server supports has been echoed back.
C17_Witness ==
    \E t \in Tasks :
        /\ Served(t)
        /\ task[t].wire.method = "initialize"
        /\ Get(task[t].wire.params, "protocolVersion") = <<JStr("2099-01-01")>>
        /\ task[t].resp.result # <<>>
        /\ task[t].resp.result[1].protocolVersion = "2099-01-01"

\* C18: a request for the method initialized, with or without an
\* identifier, makes neither adapter send anything.
C18_InitializedSilent ==
    \A t \in Tasks :
        (Served(t) /\ task[t].wire.method = "initialized")
            => task[t].out.kind = "none"

\* C19 (state part): a frame whose body was read but is not a valid request
\* has been answered with the one parse-error frame (-32700, no id), and
\* nothing was dispatched for it.
C19_State ==
    (mode = "stdio" /\ task[1].pc = "done" /\ ~ParseOk(task[1].wire))
        => /\ task[1].out = Output("frame", <<ParseErrorJson>>)
           /\ task[1].resp = NoResponse
           /\ task[1].calls = <<>>

\* C19 (step part): the step that takes such a frame (the body is not JSON
\* or not a request, or the bytes are not UTF-8) leaves the adapter running,
\* with the parse-error frame written and the monitor untouched.
C19_Step ==
    (mode = "stdio" /\ \/ (Finishes(1) /\ ~ParseOk(task'[1].wire))
                       \/ (run = "running" /\ run' = "exit_err_utf8"))
        => /\ run' = "running"
           /\ task'[1].pc = "done"
           /\ task'[1].out = Output("frame", <<ParseErrorJson>>)
           /\ UNCHANGED <<monitoring_active, last_update, lock>>

\* C19: on stdio every frame read in full whose body is not a valid request
\* (not UTF-8, not JSON, or JSON without the required members) is answered
\* with one framed -32700 error, dispatches nothing, and the adapter goes
\* on to the next header block; it neither ends nor skips the frame.
C19_InvalidBodyAnswered == [](C19_State) /\ [][C19_Step]_vars

\* C20 (step part): the step in which the stream ends inside an announced
\* body writes nothing, dispatches nothing, leaves the monitor as it was,
\* and makes run return an error that main turns into a non-zero status.
C20_Step ==
    (run = "running" /\ run' = "exit_err_eof")
        => /\ mode = "stdio"
           /\ task' = task
           /\ UNCHANGED <<monitoring_active, last_update, lock>>
           /\ ExitStatus(run') # 0

\* C20 (state part): once run has returned that error the process status is
\* non-zero and no request is in flight.
C20_State ==
    run = "exit_err_eof"
        => /\ ExitStatus(run) # 0
           /\ \A t \in Tasks : Idle(t)
           /\ lock = {}

FramesBefore(n) ==
    Cardinality({i \in 1..n : i <= Len(stdin.items) /\ stdin.items[i].kind = "frame"})
\* In this step the adapter reads header block i of the stream.
Reads(i) == stdin.given /\ stdin.pos = i /\ stdin'.pos = i + 1
\* What the adapter can write for a frame with the body w.
Answers(w) ==
    IF ParseOk(w)
    THEN {StdioWrite(MCPRequest(w), r) : r \in NormalResponses(MCPRequest(w))}
    ELSE {Output("frame", <<ParseErrorJson>>)}
\* Header block i had no length, block i + 1 is a frame that is due next,
\* and standard output takes one more frame.
FrameDueAfterNoLength(i) ==
    /\ stdin.given
    /\ i + 1 <= Len(stdin.items)
    /\ stdin.items[i].kind = "no_length"
    /\ stdin.items[i + 1].kind = "frame"
    /\ stdin.pos = i + 1
    /\ run = "running"
    /\ Len(stdout) < stdin.accepts
\* The frame in header block i has been answered, as the last thing written.
FrameAnswered(i) ==
    /\ i <= Len(stdin.items)
    /\ stdin.items[i].kind = "frame"
    /\ stdin.pos > i
    /\ stdout # <<>>
    /\ task[1].pc = "done"
    /\ task[1].wire = stdin.items[i].wire
    /\ Len(stdout) = FramesBefore(i)
    /\ Last(stdout) \in Answers(stdin.items[i].wire)

\* C21 (step part): reading a header block without a parsable
\* Content-Length changes nothing but the position in the stream: no request
\* is taken up, nothing is written, the monitor and the lock are as before,
\* and the adapter is still running, at reading headers.
C21_Step ==
    \A i \in 1..MaxStream :
        (Reads(i) /\ stdin.items[i].kind = "no_length")
            => /\ UNCHANGED <<task, stdout, monitoring_active, last_update, lock, run>>
               /\ run' = "running"
               /\ Idle(1)'

\* C21 (progress part): a frame that follows such a header block is
\* answered, as long as standard output takes the answer.
C21_LaterFrameAnswered ==
    \A i \in 1..MaxStream : FrameDueAfterNoLength(i) ~> FrameAnswered(i + 1)

\* C21: on stdio a header block without a parsable Content-Length is
\* discarded (no body read, nothing dispatched, nothing written) and the
\* loop is back at reading headers, so that a later correct frame is still
\* answered.
C21_NoLengthBlockDiscarded == [][C21_Step]_vars /\ C21_LaterFrameAnswered

\* C21 witness: the frame behind a header block without a length has been
\* answered with a result.
C21_Witness ==
    /\ stdin.given
    /\ Len(stdin.items) >= 2
    /\ stdin.items[1].kind = "no_length"
    /\ stdin.items[2] = Item("frame", WireMessage(TRUE, IdNum(42), METHOD_GET_MEMORY_INFO, EmptyObject))
    /\ FrameAnswered(2)
    /\ task[1].resp.result # <<>>

\* The ways run returns: Ok(()) and the errors of its `?` operators.
RunReturns == {"exit_ok", "exit_err", "exit_err_eof", "exit_err_utf8", "exit_err_write"}
\* The adapter is at a read_line of the header loop and the stream is at
\* its end, with nothing more to come.
HeaderReadAtEndOfInput ==
    /\ Idle(1)
    /\ stdin.pos > Len(stdin.items)
    /\ stdin.ending = "eof"

\* C22 (step part): the step in which run returns returns Ok exactly when
\* it is a header read at the end of the input; every other return is an
\* error, which ends the process non-zero.
C22_Step ==
    (run = "running" /\ run' # "running")
        => /\ run' \in RunReturns
           /\ (run' = "exit_ok") <=> HeaderReadAtEndOfInput
           /\ (run' # "exit_ok") => ExitStatus(run') # 0

\* C22 (state part): run has returned Ok only with the whole stream read
\* and no request in flight; once it has returned nothing is in flight.
C22_State ==
    /\ run \in RunReturns \cup {"running"}
    /\ (run = "exit_ok") => (HeaderReadAtEndOfInput /\ lock = {})
    /\ (run # "running") => Idle(1) \/ run = "exit_err_write"

\* C22: StdioServer::run returns Ok if and only if a read that expected a
\* header line met the end of the input; every other way out is an error
\* return; and on every finite input stream run returns.
C22_RunReturns ==
    [](C22_State) /\ [][C22_Step]_vars /\ <>(run # "running")

\* The header block that holds the k-th frame of the stream (0 if none).
NthFrame(k) ==
    LET at == {i \in 1..Len(stdin.items) :
                  stdin.items[i].kind = "frame" /\ FramesBefore(i) = k}
    IN IF at = {} THEN 0 ELSE CHOOSE i \in at : TRUE
\* The tasks that are inside handle_request.
Dispatching == {t \in Tasks : task[t].pc \in {"wait_lock", "in_lock"}}

\* C23 (step part): a header block is read only when no request is in
\* flight and the response to every frame before it has been written.
C23_Step ==
    \A i \in 1..MaxStream :
        Reads(i) => /\ Dispatching = {}
                    /\ Len(stdout) = FramesBefore(i - 1)

\* C23 (state part): what has been written is, in order, one answer to each
\* of the first frames of the stream; at most one request is inside
\* handle_request, and it is the frame read last.
C23_State ==
    /\ \A k \in 1..Len(stdout) :
          /\ NthFrame(k) \in 1..(stdin.pos - 1)
          /\ stdout[k] \in Answers(stdin.items[NthFrame(k)].wire)
    /\ Cardinality(Dispatching) <= 1
    /\ lock \subseteq Dispatching
    /\ \A t \in Dispatching :
          /\ stdin.pos > 1
          /\ stdin.items[stdin.pos - 1] = Item("frame", task[t].wire)
          /\ Len(stdout) = FramesBefore(stdin.pos - 2)

\* C23: the stdio adapter processes frames strictly one at a time: the
\* response to a frame is written and flushed before the next header block
\* is read, responses appear in the order of their requests, and at most
\* one request is being dispatched at any moment.
C23_OneFrameAtATime == [](C23_State) /\ [][C23_Step]_vars

\* C23 witness: two frames with different bodies have been answered, the
\* first answer first.
C23_Witness ==
    /\ stdin.given
    /\ Len(stdout) = 2
    /\ stdin.items[1].kind = "frame"
    /\ stdin.items[2].kind = "frame"
    /\ Answers(stdin.items[1].wire) \cap Answers(stdin.items[2].wire) = {}
    /\ stdout[1] \in Answers(stdin.items[1].wire)
    /\ stdout[2] \in Answers(stdin.items[2].wire)
    /\ stdin.items[1].wire.method = METHOD_GET_MEMORY_INFO

(***************************************************************************)
(* The HTTP routes.                                                        *)
(***************************************************************************)
\* The sugar endpoints: the routes under /api.
SugarEndpoints == RouterRoutes \cup {"/api/monitoring/status"}
\* Task t has answered a request on route.
Answered(t, route) == task[t].pc = "done" /\ task[t].wire.route = route

\* C24: every sugar endpoint other than the by-PID lookup sends the router
\* a request with its fixed method and a present identifier, and answers
\* HTTP 200 with the response's result as body exactly when the response
\* has a result, and HTTP 500 exactly when it has an error.
C24_SugarEndpointsUnwrap ==
    \A t \in Tasks : \A route \in SugarEndpoints \ {"/api/system/processes/:pid"} :
        Answered(t, route)
            => /\ task[t].wire.wellFormed
               /\ task[t].resp # NoResponse
               /\ Request(t).method = SugarMethod(route)
               /\ Request(t).id # <<>>
               /\ (task[t].resp.result # <<>>)
                     <=> (StatusCode(task[t].out) = 200
                            /\ task[t].out.json = task[t].resp.result)
               /\ (task[t].resp.error # <<>>) <=> (StatusCode(task[t].out) = 500)

\* C25: GET /api/system/processes/{pid} answers HTTP 404 only when the
\* router's error is process-not-found (-32001); when the lookup fails with
\* an internal error (collector failure) it answers HTTP 500.
C25_NotFoundOnlyForMissingProcess ==
    \A t \in Tasks :
        Answered(t, "/api/system/processes/:pid")
            => /\ (StatusCode(task[t].out) = 404)
                     => (ErrorCode(task[t].resp) = ERROR_PROCESS_NOT_FOUND)
               /\ (ErrorCode(task[t].resp) = ERROR_INTERNAL_ERROR)
                     => (StatusCode(task[t].out) = 500)

\* C26 (state part): a body POSTed to / that does not parse as a request is
\* answered with an HTTP error status and the parse failure text, not with
\* a JSON-RPC envelope, and the router is not invoked.
C26_State ==
    \A t \in Tasks :
        (Answered(t, "rpc") /\ mode = "http" /\ ~ParseOk(task[t].wire))
            => /\ StatusCode(task[t].out) >= 400
               /\ task[t].out.json = ParseFailureReply.json
               /\ task[t].resp = NoResponse
               /\ task[t].calls = <<>>

\* C26 (step part): the step that answers such a body leaves the monitor
\* and the lock as they were and the server accepting requests.
C26_Step ==
    \A t \in Tasks :
        (Finishes(t) /\ mode = "http" /\ task'[t].wire.route = "rpc"
                     /\ ~ParseOk(task'[t].wire))
            => /\ UNCHANGED <<monitoring_active, last_update, lock, run>>
               /\ Idle(t)'

\* C26: POST / with a body that does not parse as a request is answered
\* with an HTTP-level error that carries the parse failure text and is not
\* a JSON-RPC envelope; the router is not invoked, the monitor's state is
\* unchanged, and the server keeps serving later requests.
C26_UnparsableBodyIsHttpError == [](C26_State) /\ [][C26_Step]_vars

\* The request w needs no monitor: initialize, tools/list or initialized
\* POSTed to /, GET /health, the SSE stream.
NeedsNoMonitor(w) ==
    \/ w.route = "rpc" /\ ParseOk(w)
          /\ w.method \in {"initialize", "tools/list", "initialized"}
    \/ w.route \in {"/health", "sse"}
\* A task is inside a collector call: it holds the write guard.
InCollectorCall == \E h \in Tasks : h \in lock /\ task[h].pc = "in_lock"

\* C27 (state part): a task with such a request never waits for or holds
\* the monitor lock; and whoever holds the lock, an idle task can take and
\* complete each of these requests at once, and an open stream can emit its
\* next event.
C27_State ==
    \A t \in Tasks :
        /\ NeedsNoMonitor(task[t].wire)
              => (t \notin lock /\ task[t].pc \in {"done", "sse"})
        /\ Idle(t)
              => /\ \A w \in {b \in RestBodies : NeedsNoMonitor(b)} : ENABLED HttpPost(t, w)
                 /\ ENABLED HttpStatic(t, "/health")
                 /\ ENABLED HttpSse(t)
        /\ (task[t].pc = "sse" /\ Len(task[t].out.json) < MaxBeats) => ENABLED SseTick(t)

\* C27 (step part): every step of such a request (its receipt and answer,
\* an event of the stream, the end of the stream) leaves the flag, the
\* timestamp and the lock as they were, and a request is answered in the
\* step that receives it.
C27_Step ==
    \A t \in Tasks :
        (task'[t] # task[t] /\ NeedsNoMonitor(task'[t].wire))
            => /\ UNCHANGED <<monitoring_active, last_update, lock>>
               /\ task'[t].pc \in {"done", "sse"}
               /\ task'[t].calls = <<>>

CallsMonitor(t) ==
    /\ task[t].pc = "in_lock"
    /\ t \in lock
    /\ task'[t].pc = "done"

\* C28 (step part): the operation called is one that begins with
\* self.refresh(), and no step takes last_update back.
C28_Step ==
    /\ \A t \in Tasks : CallsMonitor(t) => Refreshes(PlanOp(t))
    /\ last_update' >= last_update

\* C28: every monitor operation a handler invokes while it holds the write
\* lock (the get operations, start_monitoring and stop_monitoring)
\* refreshes last_update, whether it then succeeds or fails, and the
\* timestamp never moves backwards.
C28_EveryOperationRefreshes == [][C28_Step]_vars

\* The error codes of types/constants.rs.
ErrorCodes ==
    {ERROR_INVALID_REQUEST, ERROR_METHOD_NOT_FOUND, ERROR_INVALID_PARAMS,
     ERROR_INTERNAL_ERROR, ERROR_PARSE_ERROR, ERROR_PROCESS_NOT_FOUND,
     ERROR_MONITORING_ALREADY_STARTED, ERROR_MONITORING_NOT_STARTED,
     ERROR_SYSTEM_COMMAND_FAILED, ERROR_PERMISSION_DENIED}
\* The codes a response may carry given the enumeration and the two
\* reserved codes that are never sent.
EmittableCodes ==
    ErrorCodes \ {ERROR_MONITORING_ALREADY_STARTED, ERROR_MONITORING_NOT_STARTED}
\* The error objects task t holds or has sent out: in its response and in
\* the envelope that went out on the transport.
ErrorsOf(t) ==
    {task[t].resp.error[i] : i \in 1..Len(task[t].resp.error)}
        \cup (IF task[t].out.kind \in {"frame", "http200"} /\ task[t].wire.route = "rpc"
              THEN {task[t].out.json[1].error[i] : i \in 1..Len(task[t].out.json[1].error)}
              ELSE {})

\* C29: every error code that appears in a response on either transport
\* belongs to the enumeration of constants; the reserved codes -32002
\* (monitoring already started) and -32003 (monitoring not started) are
\* never emitted: startMonitoring and stopMonitoring answer a redundant
\* call with a result whose boolean is false.
C29_ErrorCodesEnumerated ==
    \A t \in Tasks :
        /\ \A e \in ErrorsOf(t) : e.code \in EmittableCodes
        /\ (Served(t) /\ PlanOp(t) \in {"start_monitoring", "stop_monitoring"})
              => /\ task[t].resp.error = <<>>
                 /\ \E b \in BOOLEAN :
                       task[t].resp.result \in
                           {<<[kind |-> "started", flag |-> b]>>,
                            <<[kind |-> "stopped", flag |-> b]>>}

\* C29 witness: stopMonitoring on a monitor that is not active has been
\* answered with a result whose boolean is false, on stdio.
C29_Witness ==
    /\ mode = "stdio"
    /\ Served(1)
    /\ task[1].wire.method = METHOD_STOP_MONITORING
    /\ ReportsFlag(task[1].resp, "stopped", FALSE)
    /\ task[1].out.json[1].error = <<>>

\* The message came without a params member (after #[serde(default)] an
\* absent member and an explicit null are the same).
ParamsAbsent(w) == w.params.kind = "null"

\* C30: a parsed request always has a method, and when the params member is
\* absent from the incoming message the request's params is an empty
\* object, so that getProcessByPID without params is answered with invalid
\* params and not with a parse failure.
C30_AbsentParamsIsEmptyObject ==
    \A t \in Tasks :
        Served(t)
            => /\ task[t].wire # MissingMethod
               /\ ParamsAbsent(task[t].wire) => Request(t).params = EmptyObject
               /\ (ParamsAbsent(task[t].wire)
                      /\ task[t].wire.method = METHOD_GET_PROCESS_BY_PID)
                    => IsError(task[t].resp, ERROR_INVALID_PARAMS, "Missing PID parameter")

(***************************************************************************)
(* Params of the methods without parameters.                               *)
(***************************************************************************)
\* The response handle_request gives to request when the flag is active and
\* the collectors meet input, with the collector calls made.
ResponseTo(request, active, input) ==
    LET plan == handle_request(request)
    IN IF plan.op = "none" THEN [resp |-> plan.resp, calls |-> <<>>]
       ELSE LET m == MonitorOperation(plan.op, plan.pid, active, input)
                handled == HandlerResponse(request.id, plan.op, plan.pid, m.res)
            IN [resp |-> IF plan.wrap THEN WrapToolResponse(request.id, handled)
                         ELSE handled,
                calls |-> m.calls]
\* The inputs the collectors can meet for request.
InputsOf(request) ==
    IF handle_request(request).op = "none" THEN {"ok"}
    ELSE InputsFor(handle_request(request).op)

\* C31 (step part): the response a request to a method without parameters
\* gets is the response the same request with any other params gets
\* against the same flag and the same collector outcomes, and it is no
\* invalid-params error.
C31_Step ==
    \A t \in Tasks :
        (Finishes(t) /\ ParseOk(task'[t].wire)
                     /\ task'[t].wire.method \in NoParamMethods)
            => LET request == MCPRequest(task'[t].wire)
               IN /\ ErrorCode(task'[t].resp) # ERROR_INVALID_PARAMS
                  /\ \A p \in ParamShapes :
                        LET other == [request EXCEPT !.params = p]
                        IN /\ InputsOf(other) = InputsOf(request)
                           /\ \E i \in InputsOf(request) :
                                 /\ ResponseTo(request, monitoring_active, i)
                                       = [resp |-> task'[t].resp, calls |-> task'[t].calls]
                                 /\ ResponseTo(other, monitoring_active, i)
                                       = ResponseTo(request, monitoring_active, i)

\* C31: for the methods that take no parameters the response does not
\* depend on params: two requests that differ only in params, handled
\* against the same monitor state and collector outcomes, get the same
\* result or the same error, and unexpected params never cause an
\* invalid-params error.
C31_ParamsIgnored == [][C31_Step]_vars

\* C31 witness: stopMonitoring sent with params that are an array has been
\* answered stopped = true.
C31_Witness ==
    /\ Served(1)
    /\ task[1].wire.method = METHOD_STOP_MONITORING
    /\ task[1].wire.params.kind = "array"
    /\ ReportsFlag(task[1].resp, "stopped", TRUE)

(***************************************************************************)
(* The event stream of GET /.                                              *)
(***************************************************************************)
\* The tasks serving or having served GET /.
Streaming(t) == task[t].out.kind = "sse"

\* C32 (state part): the first item of a stream is an event with empty
\* data emitted when the stream is made, every later item is a heartbeat
\* comment a period after the item before, and a stream that is open always
\* has a next item.
C32_State ==
    \A t \in Tasks :
        Streaming(t) =>
            LET items == task[t].out.json
            IN /\ task[t].resp = NoResponse
               /\ \A k \in 1..Len(items) :
                     IF k = 1
                     THEN items[k] = [at |-> 0, text |-> "data:"]
                     ELSE items[k] = [at |-> items[k - 1].at + HEARTBEAT_SECS,
                                      text |-> ":heartbeat"]
               /\ (task[t].pc = "sse" /\ Len(items) < MaxBeats) => ENABLED SseTick(t)

\* C32 (step part): a stream grows by one item at a time, ends only when
\* the client disconnects and emits nothing afterwards.
C32_Step ==
    \A t \in Tasks :
        /\ (Streaming(t) /\ task[t].pc = "sse") =>
              /\ Streaming(t)'
              /\ Len(task'[t].out.json)
                    \in {Len(task[t].out.json), Len(task[t].out.json) + 1}
              /\ task'[t].pc # "sse" => SseClose(t)
        /\ (Streaming(t) /\ task[t].pc = "done" /\ Streaming(t)' /\ task'[t].pc = "done")
              => task'[t].out = task[t].out

\* C32: the SSE stream (GET /) emits as its first item, without waiting for
\* a heartbeat period, an event with empty data; every later item is a
\* heartbeat comment event; the stream carries no protocol payload and
\* never ends by itself, only when the client disconnects.
C32_SseHeartbeatStream == [](C32_State) /\ [][C32_Step]_vars

\* C32 witness: a stream emitted its empty event and a heartbeat and was
\* then closed by the client.
C32_Witness ==
    \E t \in Tasks :
        /\ Streaming(t)
        /\ task[t].pc = "done"
        /\ Len(task[t].out.json) = 2
        /\ task[t].out.json[2].text = ":heartbeat"

(***************************************************************************)
(* The memory snapshot.                                                    *)
(***************************************************************************)
\* C33: every MemoryInfo returned by get_memory_info has used <= total,
\* free <= total, available <= total and swap_used <= swap_total, for any
\* values read from the memory source, and the subtractions never wrap.
C33_MemoryWithinTotal ==
    (memory.info # <<>> /\ memory.info[1].ok) =>
        LET info == memory.info[1].val[1]
        IN /\ U64Leq(info.used, info.total)
           /\ U64Leq(info.free, info.total)
           /\ U64Leq(info.available, info.total)
           /\ U64Leq(info.swap_used, info.swap_total)

(***************************************************************************)
(* The frames of the stdio adapter as bytes.                               *)
(***************************************************************************)
\* The bodies of the frames written, as bytes.
BodiesWritten == [i \in 1..Len(stdout) |-> as_bytes(stdout[i].json[1])]
\* The header of a frame for a body of n bytes.
FrameHeader(n) == ContentLengthName \o <<32>> \o usize_to_string(n) \o CRLF \o CRLF

\* C34: every frame the stdio adapter writes is "Content-Length: n\r\n\r\n"
\* followed by exactly n bytes of body, n being the byte length of the
\* serialized JSON, and the adapter's own header-reading algorithm run over
\* its output recovers the body of each frame, in order.
C34_FramesRoundTrip ==
    /\ \A i \in 1..Len(stdout) :
          LET body == BodiesWritten[i]
          IN write_frame(stdout[i].json[1]) = FrameHeader(Len(body)) \o body
    /\ ReadFrames(StdoutBytes(stdout)) = BodiesWritten

\* C34 witness: two frames were written, the first with a body whose bytes
\* outnumber its characters, the second with a length of two digits.
C34_Witness ==
    /\ Len(stdout) = 2
    /\ len(stdout[1].json[1]) > chars_count(stdout[1].json[1])
    /\ len(stdout[2].json[1]) >= 10

(***************************************************************************)
(* Requests racing for the flag.                                           *)
(***************************************************************************)
\* The tasks that have sent a request to method.
Senders(method) ==
    {t \in Tasks : task[t].pc # "ready" /\ task[t].wire.method = method}
\* The tasks answered that `kind` is b.
Told(kind, b) == {t \in Tasks : Served(t) /\ ReportsFlag(task[t].resp, kind, b)}
\* Of the requests of a run that all go to one method, with the flag such
\* that the first one served is told true: exactly one of those served is
\* told true, all the others false.
OneWinner(method, kind, flagAtArrival) ==
    (/\ \A t \in Tasks : task[t].pc # "ready" => t \in Senders(method)
     /\ flagAtArrival)
        => /\ Cardinality(Told(kind, TRUE)) <= 1
           /\ \A t \in Senders(method) :
                 Served(t) => /\ t \in Told(kind, TRUE) \cup Told(kind, FALSE)
                              /\ Told(kind, TRUE) # {}

\* C35: when several startMonitoring requests are handled concurrently
\* while the flag is inactive and no stopMonitoring intervenes, exactly one
\* of them gets started = true and all others get started = false, in
\* every interleaving; symmetrically exactly one of several concurrent
\* stopMonitoring requests on an active flag gets stopped = true.  (The
\* flag was inactive at arrival when it is inactive still or a start was
\* told true; it was active when it is active still or a stop was told
\* true.)
C35_OneWinnerPerRace ==
    /\ OneWinner(METHOD_START_MONITORING, "started",
                 ~monitoring_active \/ Told("started", TRUE) # {})
    /\ OneWinner(METHOD_STOP_MONITORING, "stopped",
                 monitoring_active \/ Told("stopped", TRUE) # {})

\* C35 witness: every request of the run is a startMonitoring, one has been
\* told true and another false.
C35_Witness ==
    \E t, u \in Tasks :
        /\ \A v \in Tasks : task[v].pc # "ready" => v \in Senders(METHOD_START_MONITORING)
        /\ t \in Told("started", TRUE)
        /\ u \in Told("started", FALSE)

(***************************************************************************)
(* Progress at the monitor lock.                                           *)
(***************************************************************************)
\* C36 (state part): the holders of the lock are the tasks inside their
\* monitor call, at most one at a time, and a waiting task holds nothing.
C36_State ==
    /\ lock = {t \in Tasks : task[t].pc = "in_lock"}
    /\ Cardinality(lock) <= 1

\* C36 (step part): a request acquires the lock once, from waiting without
\* it; everything it does at the monitor (the six parts of
\* getSystemMetrics, the handler tools/call delegates to) happens in its one
\* stay, after which the lock is free.
C36_Step ==
    \A t \in Tasks :
        /\ (t \notin lock /\ t \in lock') => (task[t].pc = "wait_lock" /\ lock = {})
        /\ (t \in lock /\ task'[t] # task[t])
              => /\ task'[t].pc = "done"
                 /\ lock' = {}
                 /\ task'[t].out.kind = "http200"
        /\ (task[t].pc = "wait_lock" /\ task'[t] # task[t])
              => (task'[t] = [task[t] EXCEPT !.pc = "in_lock"] /\ t \in lock')
        /\ task'[t].calls # task[t].calls => (t \in lock \/ task'[t].calls = <<>>)

\* C36: no request can deadlock on the monitor lock: each handler acquires
\* the lock at most once and never while already holding it, so if every
\* collector call returns and the lock is granted fairly, every request that
\* was accepted eventually gets its response.
C36_NoDeadlockOnLock ==
    /\ [](C36_State)
    /\ [][C36_Step]_vars
    /\ \A t \in Tasks :
          (task[t].pc \in {"wait_lock", "in_lock"})
              ~> (task[t].pc = "done" /\ task[t].out.kind = "http200")

\* C36 witness: getSystemMetrics has been answered after its six collector
\* calls while a tools/call request waits for the lock.
C36_Witness ==
    \E t, u \in Tasks :
        /\ Served(t)
        /\ task[t].wire.method = METHOD_GET_SYSTEM_METRICS
        /\ Len(task[t].calls) = Len(MetricsOrder)
        /\ task[u].pc = "wait_lock"
        /\ task[u].wire.method = "tools/call"

(***************************************************************************)
(* getSystemMetrics and its collectors.                                    *)
(***************************************************************************)
\* The methods of the single collectors.
CollectorMethods ==
    {METHOD_GET_SYSTEM_INFO, METHOD_GET_CPU_INFO, METHOD_GET_MEMORY_INFO,
     METHOD_GET_DISK_INFO, METHOD_GET_NETWORK_INFO, METHOD_GET_PROCESSES}

\* C37 (state part): a served getSystemMetrics has called the collectors in
\* the order system, cpu, memory, disk, network, processes, each at most
\* once and none after a failure; it has a result exactly when all six were
\* called and succeeded, and otherwise the internal error of the failing
\* collector with no result.  A served method of a single collector has
\* called that collector once and succeeded exactly when that call did.
C37_State ==
    \A t \in Tasks :
        /\ (Served(t) /\ task[t].wire.method = METHOD_GET_SYSTEM_METRICS) =>
              LET calls == task[t].calls
                  allOk == /\ Len(calls) = Len(MetricsOrder)
                           /\ \A i \in 1..Len(calls) : ~Failed(calls[i])
              IN /\ Len(calls) \in 1..Len(MetricsOrder)
                 /\ \A i \in 1..Len(calls) : calls[i].op = MetricsOrder[i]
                 /\ \A i \in 1..(Len(calls) - 1) : ~Failed(calls[i])
                 /\ (task[t].resp.result # <<>>) = allOk
                 /\ allOk => task[t].resp =
                        create_success_response(Request(t).id,
                                                to_value([kind |-> "SystemMetrics"]))
                 /\ ~allOk => /\ Failed(Last(calls))
                              /\ IsError(task[t].resp, ERROR_INTERNAL_ERROR,
                                         "Failed to get system metrics: "
                                             \o FailureText(Last(calls)))
        /\ (Served(t) /\ task[t].wire.method \in CollectorMethods) =>
              /\ Len(task[t].calls) = 1
              /\ task[t].calls[1].op = MethodOp(task[t].wire.method)
              /\ (task[t].resp.result # <<>>) = ~Failed(task[t].calls[1])
        /\ (task[t].pc = "in_lock" /\ task[t].wire.method \in CollectorMethods) =>
              ENABLED (MonitorCall(t) /\ task'[t].resp.result # <<>>)

\* C37 (step part): the step that answers getSystemMetrics makes all its
\* collector calls, under the lock.
C37_Step ==
    \A t \in Tasks :
        (Finishes(t) /\ task'[t].wire.method = METHOD_GET_SYSTEM_METRICS
                     /\ ParseOk(task'[t].wire))
            => (t \in lock /\ task[t].calls = <<>>)

\* C37: getSystemMetrics is all-or-nothing: it calls the six collectors in
\* the order system, cpu, memory, disk, network, processes, each at most
\* once, stops at the first one that fails and then returns an internal
\* error with no partial result; it returns a result exactly when all six
\* succeed.  A failing collector does not affect requests to the methods of
\* the other collectors.
C37_MetricsAllOrNothing == [](C37_State) /\ [][C37_Step]_vars

\* C37 witness: getSystemMetrics was answered an internal error after its
\* fourth collector (disk) failed.
C37_Witness ==
    /\ Served(1)
    /\ task[1].wire.method = METHOD_GET_SYSTEM_METRICS
    /\ Len(task[1].calls) = 4
    /\ Failed(task[1].calls[4])
    /\ task[1].resp.result = <<>>
    /\ ErrorCode(task[1].resp) = ERROR_INTERNAL_ERROR

(***************************************************************************)
(* The id of a request through serialization and parsing.                  *)
(***************************************************************************)
\* C38: serializing and then parsing an MCPRequest, and parsing and then
\* serializing a request message, preserves the identifier: an absent id
\* stays absent, a string id the same string (also "42" and "null"), an
\* integer id the same integer; no string id becomes a number, null or
\* absent.
C38_RequestIdRoundTrip ==
    \A t \in Tasks :
        (Served(t) /\ task[t].wire.id.kind \in {"absent", "string", "number"})
            => LET id == Request(t).id
               IN /\ SerializeRequestId(id) = task[t].wire.id
                  /\ deserialize_id_opt(SerializeRequestId(id)) = id

(***************************************************************************)
(* The monitoring status endpoint.                                         *)
(***************************************************************************)
\* C39 (step part): the body GET /api/monitoring/status answers with has
\* as monitoring_active the flag of the monitor at that moment.
C39_Step ==
    \A t \in Tasks :
        (Finishes(t) /\ task'[t].wire.route = "/api/monitoring/status")
            => /\ task'[t].out.json # <<>>
               /\ Member(task'[t].out.json[1], "monitoring_active")
                     = <<JBoolOf(monitoring_active)>>

\* C39: GET /api/monitoring/status reports the monitor's actual flag: after
\* any sequence of start / stop requests its monitoring_active value equals
\* the flag held by the monitor (false initially and after a stop, true
\* after a start).
C39_StatusReportsFlag == [][C39_Step]_vars

====
